---- MODULE Spec2Model ----
(***************************************************************************)
(* Fides Protocol reference implementation: the hash-chained append-only   *)
(* ledger (src/src/ledger.py), the record factory and validators           *)
(* (src/src/records.py), the hasher (src/src/hash_chain.py) and the        *)
(* authorization engine (src/src/verify.py).                               *)
(*                                                                         *)
(* Python dicts are TLA+ functions from field names to values; a key that  *)
(* is absent from the dict is absent from the DOMAIN.  Strings are opaque  *)
(* tokens: what the parsers (Decimal, datetime.fromisoformat, the UUID     *)
(* regex) make of a token is given by the tables below.  SHA-256 is        *)
(* modelled as collision free: the digest of a byte string is the tagged   *)
(* byte string itself.                                                     *)
(***************************************************************************)
EXTENDS Integers, Sequences, FiniteSets, TLC

VARIABLES records, payments, result, callers

vars == <<records, payments, result, callers>>

-----------------------------------------------------------------------------
(* Bounds of the model *)

MaxRecords == 3
MaxPayments == 2

-----------------------------------------------------------------------------
(* String tokens and what the parsers make of them *)

None == "None"

D1 == "11111111-1111-4111-8111-111111111111"
D2 == "22222222-2222-4222-8222-222222222222"
R1 == "aaaaaaaa-aaaa-4aaa-8aaa-aaaaaaaaaaaa"
NotUuid == "not-a-uuid"

\* re.match of the UUID v4 pattern on str(value).lower()
is_uuid_v4(value) == value \in {D1, D2, R1}

T0 == "2023-12-01T10:00:00Z"
T1 == "2024-01-01T10:00:00Z"
T2 == "2024-01-01T10:30:00Z"
T3 == "2024-02-01T14:00:00Z"
T3naive == "2024-02-01T14:00:00"
NotADate == "not-a-date"

\* datetime.fromisoformat(value.replace('Z', '+00:00')): the instant and
\* whether the datetime carries a UTC offset
DateTable ==
    (T0 :> [t |-> 0, aware |-> TRUE]) @@
    (T1 :> [t |-> 1, aware |-> TRUE]) @@
    (T2 :> [t |-> 2, aware |-> TRUE]) @@
    (T3 :> [t |-> 3, aware |-> TRUE]) @@
    (T3naive :> [t |-> 3, aware |-> FALSE])

is_iso8601(value) == value \in DOMAIN DateTable

parse_date(value) == DateTable[value]

\* datetime.__lt__ / __gt__ raise TypeError between naive and aware values
DateComparable(a, b) == a.aware = b.aware

\* decimal.Decimal(str): finite numbers and the quiet NaN; any other token
\* raises InvalidOperation (ConversionSyntax).  The constructor is exact: a
\* number is n units plus tiny units of 10^-TinyExp.
DecimalTable ==
    ("10000.00" :> [kind |-> "num", n |-> 10000, tiny |-> 0]) @@
    ("20000.00" :> [kind |-> "num", n |-> 20000, tiny |-> 0]) @@
    ("6000.00" :> [kind |-> "num", n |-> 6000, tiny |-> 0]) @@
    ("5000.00" :> [kind |-> "num", n |-> 5000, tiny |-> 0]) @@
    ("4000.00" :> [kind |-> "num", n |-> 4000, tiny |-> 0]) @@
    ("4001.00" :> [kind |-> "num", n |-> 4001, tiny |-> 0]) @@
    ("4000.0000000000000000000000001" :> [kind |-> "num", n |-> 4000, tiny |-> 1]) @@
    ("0" :> [kind |-> "num", n |-> 0, tiny |-> 0]) @@
    ("-100.00" :> [kind |-> "num", n |-> 0 - 100, tiny |-> 0]) @@
    ("NaN" :> [kind |-> "nan", n |-> 0, tiny |-> 0])

DecimalParses(s) == s \in DOMAIN DecimalTable

Decimal(s) == DecimalTable[s]

DecZero == [kind |-> "num", n |-> 0, tiny |-> 0]

\* the arithmetic context of the decimal module: 28 significant digits,
\* ROUND_HALF_EVEN
ContextPrec == 28
TinyExp == 25

RECURSIVE Pow10(_)
Pow10(k) == IF k <= 0 THEN 1 ELSE 10 * Pow10(k - 1)

\* number of digits of the integer part
RECURSIVE IntDigits(_)
IntDigits(n) ==
    IF n < 0 THEN IntDigits(0 - n)
    ELSE IF n < 10 THEN 1 ELSE 1 + IntDigits(n \div 10)

\* the result of an arithmetic operation is rounded to ContextPrec
\* significant digits: with an integer part of IntDigits(n) digits the last
\* IntDigits(n) + TinyExp - ContextPrec digits of tiny are rounded away
ContextRound(n, tiny) ==
    LET drop == IntDigits(n) + TinyExp - ContextPrec
    IN  IF n = 0 \/ drop <= 0 THEN [kind |-> "num", n |-> n, tiny |-> tiny]
        ELSE LET unit == Pow10(drop)
                 q == tiny \div unit
                 r == tiny % unit
                 up == 2 * r > unit \/ (2 * r = unit /\ q % 2 = 1)
             IN [kind |-> "num", n |-> n,
                 tiny |-> (IF up THEN q + 1 ELSE q) * unit]

\* mutant: the addend is dropped
DecAdd_DropsAddend(a, b) == a

\* Decimal.__add__: a quiet NaN operand gives NaN without signalling, a
\* finite sum is rounded by the context
DecAdd(a, b) ==
    IF a.kind = "nan" \/ b.kind = "nan"
    THEN [kind |-> "nan", n |-> 0, tiny |-> 0]
    ELSE ContextRound(a.n + b.n, a.tiny + b.tiny)

\* Decimal.__gt__ of two finite numbers: exact, no rounding
DecGt(a, b) == a.n > b.n \/ (a.n = b.n /\ a.tiny > b.tiny)

\* str(Decimal) and Decimal(str(...)) of a computed total
DecStr(d) == [repr |-> d]
DecimalOfStr(s) == s.repr

is_positive_decimal(value) ==
    /\ DecimalParses(value)
    /\ Decimal(value).kind = "num"
    /\ DecGt(Decimal(value), DecZero)

-----------------------------------------------------------------------------
(* hash_chain.py *)

AllKeys == <<"act_type", "authority_id", "beneficiary", "currency",
             "decision_date", "decision_id", "deciders_id", "legal_basis",
             "maximum_term", "maximum_value", "previous_record_hash",
             "record_timestamp", "record_type", "revocation_date",
             "revocation_id", "revocation_reason", "signatures",
             "target_decision_id">>

Has(record, key) == key \in DOMAIN record

get(record, key, default) == IF Has(record, key) THEN record[key] ELSE default

\* json.dumps(record, sort_keys=True, ...): the items of the dict in
\* alphabetical key order
SortedItems(record) ==
    LET Present(k) == k \in DOMAIN record
        ks == SelectSeq(AllKeys, Present)
    IN [i \in 1..Len(ks) |-> <<ks[i], record[ks[i]]>>]

canonical_json(record) == SortedItems(record)

sha256_hash(data) == <<"sha256", data>>

\* f"FIDES-GENESIS-{authority_id}-{genesis_timestamp}"
GenesisSeed(authority_id, genesis_timestamp) ==
    "FIDES-GENESIS-" \o authority_id \o "-" \o genesis_timestamp

genesis_hash(authority_id, genesis_timestamp) ==
    sha256_hash(<<GenesisSeed(authority_id, genesis_timestamp)>>)

record_hash(record) == sha256_hash(canonical_json(record))

\* previous_record is a sequence holding the previous record, empty for None
compute_previous_hash(authority_id, record_timestamp, previous_record) ==
    IF previous_record = <<>>
    THEN genesis_hash(authority_id, record_timestamp)
    ELSE record_hash(previous_record[1])

\* mutant: the link check is skipped
verify_chain_link_Skipped(current_record, previous_record) == TRUE

verify_chain_link(current_record, previous_record) ==
    /\ Has(current_record, "previous_record_hash")
    /\ current_record.previous_record_hash = record_hash(previous_record)

verify_genesis(record) ==
    /\ Has(record, "previous_record_hash")
    /\ record.previous_record_hash =
          genesis_hash(get(record, "authority_id", ""),
                       get(record, "record_timestamp", ""))

-----------------------------------------------------------------------------
(* ledger.py: the records table and the payments table *)

\* json.loads(row['record_data']): the dict rebuilt from the stored items
json_loads(data) ==
    LET keys == {data[i][1] : i \in 1..Len(data)}
        ValueOf(k) == data[CHOOSE i \in 1..Len(data) : data[i][1] = k][2]
    IN [k \in keys |-> ValueOf(k)]

\* the columns of the INSERT that queries read, and record_data
RecordRow(record) ==
    [record_type |-> get(record, "record_type", "DR"),
     decision_id |-> get(record, "decision_id", None),
     target_decision_id |-> get(record, "target_decision_id", None),
     record_data |-> SortedItems(record)]

\* columns declared NOT NULL that the INSERT fills from record.get(...)
NotNullColumns == {"authority_id", "previous_record_hash", "record_timestamp"}

\* SELECT record_data ... ORDER BY id DESC LIMIT 1, as an empty or one-element
\* sequence
get_last_record(recs) ==
    IF Len(recs) = 0 THEN <<>> ELSE <<json_loads(recs[Len(recs)].record_data)>>

get_record_count(recs) == Len(recs)

get_all_records(recs) == [i \in 1..Len(recs) |-> json_loads(recs[i].record_data)]

\* mutant: the INSERT replaces the last row instead of adding one
append_record_Overwrites(recs, record) ==
    LET last_record == get_last_record(recs)
        record_count == get_record_count(recs)
        chain_ok == IF record_count = 0
                    THEN verify_genesis(record)
                    ELSE verify_chain_link(record, last_record[1])
    IN  IF ~chain_ok
        THEN [exc |-> "ValueError: Hash chain validation failed", recs |-> recs]
        ELSE IF \E c \in NotNullColumns : ~Has(record, c)
        THEN [exc |-> "IntegrityError: NOT NULL constraint failed",
              recs |-> recs]
        ELSE [exc |-> None,
              recs |-> IF record_count = 0 THEN <<RecordRow(record)>>
                       ELSE [recs EXCEPT ![record_count] = RecordRow(record)],
              hash |-> record_hash(record)]

\* mutant: the record is inserted without the link check
append_record_TrustsCaller(recs, record) ==
    [exc |-> None,
     recs |-> Append(recs, RecordRow(record)),
     hash |-> record_hash(record)]

\* append_record(record) on the table recs: the exception raised ("None" when
\* it returns), the table afterwards and the returned hash
append_record(recs, record) ==
    LET last_record == get_last_record(recs)
        record_count == get_record_count(recs)
        chain_ok == IF record_count = 0
                    THEN verify_genesis(record)
                    ELSE verify_chain_link(record, last_record[1])
    IN  IF ~chain_ok
        THEN [exc |-> IF record_count = 0
                      THEN "ValueError: Invalid genesis hash"
                      ELSE "ValueError: Hash chain validation failed",
              recs |-> recs]
        ELSE IF \E c \in NotNullColumns : ~Has(record, c)
        THEN [exc |-> "IntegrityError: NOT NULL constraint failed",
              recs |-> recs]
        ELSE [exc |-> None,
              recs |-> Append(recs, RecordRow(record)),
              hash |-> record_hash(record)]

\* mutant: the query forgets the decision_id filter
find_decision_record_AnyDecision(recs, decision_id) ==
    LET hits == {i \in 1..Len(recs) : recs[i].record_type \in {"DR", "SDR"}}
    IN  IF hits = {} THEN <<>>
        ELSE <<json_loads(recs[CHOOSE i \in hits : \A j \in hits : i <= j].record_data)>>

\* mutant: ORDER BY id DESC, the latest matching record wins
find_decision_record_Latest(recs, decision_id) ==
    LET hits == {i \in 1..Len(recs) :
                    /\ recs[i].decision_id # None
                    /\ recs[i].decision_id = decision_id
                    /\ recs[i].record_type \in {"DR", "SDR"}}
    IN  IF hits = {} THEN <<>>
        ELSE <<json_loads(recs[CHOOSE i \in hits : \A j \in hits : i >= j].record_data)>>

\* SELECT ... WHERE decision_id = ? AND record_type IN ('DR','SDR')
\* ORDER BY id ASC LIMIT 1, as an empty or one-element sequence
find_decision_record(recs, decision_id) ==
    LET hits == {i \in 1..Len(recs) :
                    /\ recs[i].decision_id # None
                    /\ recs[i].decision_id = decision_id
                    /\ recs[i].record_type \in {"DR", "SDR"}}
    IN  IF hits = {} THEN <<>>
        ELSE <<json_loads(recs[CHOOSE i \in hits : \A j \in hits : i <= j].record_data)>>

\* mutant: the query filters on the decision_id column, NULL in every RR row
find_revocation_record_ByDecisionId(recs, decision_id) ==
    LET hits == {i \in 1..Len(recs) :
                    /\ recs[i].decision_id # None
                    /\ recs[i].decision_id = decision_id
                    /\ recs[i].record_type = "RR"}
    IN  IF hits = {} THEN <<>>
        ELSE <<json_loads(recs[CHOOSE i \in hits : \A j \in hits : i <= j].record_data)>>

\* SELECT ... WHERE target_decision_id = ? AND record_type = 'RR'
\* ORDER BY id ASC LIMIT 1
find_revocation_record(recs, decision_id) ==
    LET hits == {i \in 1..Len(recs) :
                    /\ recs[i].target_decision_id # None
                    /\ recs[i].target_decision_id = decision_id
                    /\ recs[i].record_type = "RR"}
    IN  IF hits = {} THEN <<>>
        ELSE <<json_loads(recs[CHOOSE i \in hits : \A j \in hits : i <= j].record_data)>>

\* mutant: no decision is ever reported as revoked
is_revoked_Never(recs, decision_id) == FALSE

is_revoked(recs, decision_id) == find_revocation_record(recs, decision_id) # <<>>

\* mutant: a decision takes one payment only
record_payment_OncePerDecision(pays, payment_id, decision_id, beneficiary, currency, value, payment_date) ==
    IF \E i \in 1..Len(pays) : pays[i].decision_id = decision_id
    THEN [exc |-> "ValueError", pays |-> pays]
    ELSE [exc |-> None,
          pays |-> Append(pays, [payment_id |-> payment_id,
                                 decision_id |-> decision_id,
                                 beneficiary |-> beneficiary,
                                 currency |-> currency,
                                 value |-> value,
                                 payment_date |-> payment_date])]

\* mutant: the payments table has no UNIQUE constraint on payment_id
record_payment_NoUnique(pays, payment_id, decision_id, beneficiary, currency, value, payment_date) ==
    [exc |-> None,
     pays |-> Append(pays, [payment_id |-> payment_id,
                            decision_id |-> decision_id,
                            beneficiary |-> beneficiary,
                            currency |-> currency,
                            value |-> value,
                            payment_date |-> payment_date])]

\* record_payment: the payments table after the INSERT, unchanged when the
\* UNIQUE constraint on payment_id refuses it
record_payment(pays, payment_id, decision_id, beneficiary, currency, value, payment_date) ==
    IF \E i \in 1..Len(pays) : pays[i].payment_id = payment_id
    THEN [exc |-> "IntegrityError: UNIQUE constraint failed", pays |-> pays]
    ELSE [exc |-> None,
          pays |-> Append(pays, [payment_id |-> payment_id,
                                 decision_id |-> decision_id,
                                 beneficiary |-> beneficiary,
                                 currency |-> currency,
                                 value |-> value,
                                 payment_date |-> payment_date])]

\* mutant: the query of sum_payments matches no row
SumFrom_NoRows(pays, decision_id, i, total) == [exc |-> None, total |-> total]

\* the loop of sum_payments over the rows from position i on: total, or the
\* InvalidOperation that Decimal(row['value']) raises
RECURSIVE SumFrom(_, _, _, _)
SumFrom(pays, decision_id, i, total) ==
    IF i > Len(pays) THEN [exc |-> None, total |-> total]
    ELSE IF pays[i].decision_id # decision_id
    THEN SumFrom(pays, decision_id, i + 1, total)
    ELSE IF ~DecimalParses(pays[i].value)
    THEN [exc |-> "InvalidOperation", total |-> total]
    ELSE SumFrom(pays, decision_id, i + 1, DecAdd(total, Decimal(pays[i].value)))

sum_payments(pays, decision_id) ==
    LET s == SumFrom(pays, decision_id, 1, DecZero)
    IN [exc |-> s.exc, str |-> DecStr(s.total)]

\* mutant: only the genesis record is checked
verify_chain_integrity_GenesisOnly(recs) ==
    LET rs == get_all_records(recs)
    IN  IF Len(rs) = 0 THEN <<TRUE, 0 - 1>>
        ELSE IF ~verify_genesis(rs[1]) THEN <<FALSE, 0>>
        ELSE <<TRUE, 0 - 1>>

\* mutant: the loop checks each record against itself instead of its
\* predecessor
verify_chain_integrity_OffByOne(recs) ==
    LET rs == get_all_records(recs)
        bad == {i \in 1..Len(rs) :
                   IF i = 1 THEN ~verify_genesis(rs[1])
                   ELSE ~verify_chain_link(rs[i], rs[i])}
    IN  IF Len(rs) = 0 THEN <<TRUE, 0 - 1>>
        ELSE IF bad = {} THEN <<TRUE, 0 - 1>>
        ELSE <<FALSE, (CHOOSE i \in bad : \A j \in bad : i <= j) - 1>>

\* mutant: the loop runs to the end and reports the last failing record
verify_chain_integrity_LastFailure(recs) ==
    LET rs == get_all_records(recs)
        bad == {i \in 1..Len(rs) :
                   IF i = 1 THEN ~verify_genesis(rs[1])
                   ELSE ~verify_chain_link(rs[i], rs[i - 1])}
    IN  IF Len(rs) = 0 THEN <<TRUE, 0 - 1>>
        ELSE IF bad = {} THEN <<TRUE, 0 - 1>>
        ELSE <<FALSE, (CHOOSE i \in bad : \A j \in bad : i >= j) - 1>>

\* verify_chain_integrity: <<valid, first_invalid_index>>, index 0-based,
\* -1 standing for None
verify_chain_integrity(recs) ==
    LET rs == get_all_records(recs)
        bad == {i \in 1..Len(rs) :
                   IF i = 1 THEN ~verify_genesis(rs[1])
                   ELSE ~verify_chain_link(rs[i], rs[i - 1])}
    IN  IF Len(rs) = 0 THEN <<TRUE, 0 - 1>>
        ELSE IF bad = {} THEN <<TRUE, 0 - 1>>
        ELSE <<FALSE, (CHOOSE i \in bad : \A j \in bad : i <= j) - 1>>

-----------------------------------------------------------------------------
(* records.py: validators *)

If(cond, code) == IF cond THEN <<code>> ELSE <<>>

DRRequired == <<"decision_id", "authority_id", "deciders_id", "act_type",
                "currency", "maximum_value", "beneficiary", "legal_basis",
                "decision_date", "previous_record_hash", "record_timestamp",
                "signatures">>

MissingCode ==
    ("decision_id" :> "MISSING_DECISION_ID") @@
    ("authority_id" :> "MISSING_AUTHORITY_ID") @@
    ("deciders_id" :> "MISSING_DECIDERS_ID") @@
    ("act_type" :> "MISSING_ACT_TYPE") @@
    ("currency" :> "MISSING_CURRENCY") @@
    ("maximum_value" :> "MISSING_MAXIMUM_VALUE") @@
    ("beneficiary" :> "MISSING_BENEFICIARY") @@
    ("legal_basis" :> "MISSING_LEGAL_BASIS") @@
    ("decision_date" :> "MISSING_DECISION_DATE") @@
    ("previous_record_hash" :> "MISSING_PREVIOUS_RECORD_HASH") @@
    ("record_timestamp" :> "MISSING_RECORD_TIMESTAMP") @@
    ("signatures" :> "MISSING_SIGNATURES") @@
    ("revocation_id" :> "MISSING_REVOCATION_ID") @@
    ("target_decision_id" :> "MISSING_TARGET_DECISION_ID") @@
    ("revocation_reason" :> "MISSING_REVOCATION_REASON") @@
    ("revocation_date" :> "MISSING_REVOCATION_DATE")

\* the loop over the required fields: one MISSING_ code per absent field
MissingErrors(record, required) ==
    LET Absent(f) == ~Has(record, f)
        fs == SelectSeq(required, Absent)
    IN [i \in 1..Len(fs) |-> MissingCode[fs[i]]]

\* mutant: every record passes
validate_dr_AcceptsAll(dr) == [exc |-> None, valid |-> TRUE, errors |-> <<>>]

\* validate_dr(dr): exc is "TypeError" when comparing a naive with an aware
\* datetime raises, else (valid, errors) is returned
validate_dr(dr) ==
    LET missing == MissingErrors(dr, DRRequired)
    IN  IF missing # <<>>
        THEN [exc |-> None, valid |-> FALSE, errors |-> missing]
        ELSE IF /\ is_iso8601(dr.decision_date)
                /\ is_iso8601(dr.record_timestamp)
                /\ ~DateComparable(parse_date(dr.decision_date),
                                   parse_date(dr.record_timestamp))
        THEN [exc |-> "TypeError", valid |-> FALSE, errors |-> <<>>]
        ELSE LET errors ==
                    If(~is_uuid_v4(dr.decision_id), "INVALID_DECISION_ID")
                 \o If(Len(dr.deciders_id) = 0, "INVALID_DECIDERS_ID")
                 \o If(dr.act_type = "", "INVALID_ACT_TYPE")
                 \o If(~is_positive_decimal(dr.maximum_value), "INVALID_MAXIMUM_VALUE")
                 \o If(~is_iso8601(dr.decision_date), "INVALID_DECISION_DATE")
                 \o If(~is_iso8601(dr.record_timestamp), "INVALID_RECORD_TIMESTAMP")
                 \o If(/\ is_iso8601(dr.decision_date)
                       /\ is_iso8601(dr.record_timestamp)
                       /\ parse_date(dr.decision_date).t > parse_date(dr.record_timestamp).t,
                       "DECISION_DATE_AFTER_RECORD_TIMESTAMP")
                 \o If(Len(dr.signatures) = 0, "INVALID_SIGNATURES")
                 \o If(Len(dr.deciders_id) # Len(dr.signatures),
                       "DECIDERS_SIGNATURES_MISMATCH")
             IN [exc |-> None, valid |-> errors = <<>>, errors |-> errors]

RRRequired == <<"revocation_id", "target_decision_id", "authority_id",
                "deciders_id", "revocation_reason", "revocation_date",
                "previous_record_hash", "record_timestamp", "signatures">>

validate_rr(rr) ==
    LET missing == MissingErrors(rr, RRRequired)
    IN  IF missing # <<>>
        THEN [exc |-> None, valid |-> FALSE, errors |-> missing]
        ELSE LET errors ==
                    If(~is_uuid_v4(rr.revocation_id), "INVALID_REVOCATION_ID")
                 \o If(~is_uuid_v4(rr.target_decision_id), "INVALID_TARGET_DECISION_ID")
                 \o If(Len(rr.deciders_id) = 0, "INVALID_DECIDERS_ID")
                 \o If(~is_iso8601(rr.revocation_date), "INVALID_REVOCATION_DATE")
                 \o If(~is_iso8601(rr.record_timestamp), "INVALID_RECORD_TIMESTAMP")
                 \o If(Len(rr.signatures) = 0, "INVALID_SIGNATURES")
             IN [exc |-> None, valid |-> errors = <<>>, errors |-> errors]

-----------------------------------------------------------------------------
(* verify.py: the authorization engine.  A Payment is a record with the    *)
(* fields decision_id, beneficiary, currency, value, payment_date.  The    *)
(* outcome is "True", "False" or the name of the exception that escapes.   *)

\* mutant: step 6, the currency comparison, is left out
is_payment_authorized_SkipsCurrency(recs, pays, payment) ==
    LET found == find_decision_record(recs, payment.decision_id)
    IN
    \* Step 1
    IF found = <<>> THEN "False"
    \* Step 2
    ELSE IF is_revoked(recs, payment.decision_id) THEN "False"
    ELSE
    LET dr == found[1]
        v == validate_dr(dr)
    IN
    \* Step 3
    IF v.exc # None THEN v.exc
    ELSE IF ~v.valid THEN "False"
    \* Step 4
    ELSE IF ~is_iso8601(payment.payment_date) THEN "False"
    ELSE IF ~is_iso8601(get(dr, "decision_date", "")) THEN "False"
    ELSE
    LET payment_dt == parse_date(payment.payment_date)
        decision_dt == parse_date(dr.decision_date)
    IN
    IF ~DateComparable(payment_dt, decision_dt) THEN "TypeError"
    ELSE IF payment_dt.t < decision_dt.t THEN "False"
    \* Step 5
    ELSE IF payment.beneficiary # get(dr, "beneficiary", None) THEN "False"
    \* Step 7
    ELSE IF ~DecimalParses(payment.value) THEN "False"
    ELSE IF ~DecimalParses(get(dr, "maximum_value", "0")) THEN "False"
    ELSE
    LET payment_value == Decimal(payment.value)
        maximum_value == Decimal(get(dr, "maximum_value", "0"))
        summed == sum_payments(pays, payment.decision_id)
    IN
    IF payment_value.kind = "nan" THEN "InvalidOperation"
    ELSE IF ~DecGt(payment_value, DecZero) THEN "False"
    ELSE IF summed.exc # None THEN summed.exc
    ELSE
    LET total_paid == DecimalOfStr(summed.str)
        new_total == DecAdd(total_paid, payment_value)
    IN
    IF new_total.kind = "nan" \/ maximum_value.kind = "nan" THEN "InvalidOperation"
    ELSE IF DecGt(new_total, maximum_value) THEN "False"
    \* Step 8
    ELSE IF /\ get(dr, "record_type", None) = "SDR"
            /\ get(dr, "maximum_term", "") # ""
            /\ is_iso8601(dr.maximum_term)
            /\ ~DateComparable(payment_dt, parse_date(dr.maximum_term))
    THEN "TypeError"
    ELSE IF /\ get(dr, "record_type", None) = "SDR"
            /\ get(dr, "maximum_term", "") # ""
            /\ is_iso8601(dr.maximum_term)
            /\ payment_dt.t > parse_date(dr.maximum_term).t
    THEN "False"
    ELSE "True"

\* mutant: an SDR without a usable maximum_term authorizes nothing
is_payment_authorized_TermRequired(recs, pays, payment) ==
    LET found == find_decision_record(recs, payment.decision_id)
    IN
    \* Step 1
    IF found = <<>> THEN "False"
    \* Step 2
    ELSE IF is_revoked(recs, payment.decision_id) THEN "False"
    ELSE
    LET dr == found[1]
        v == validate_dr(dr)
    IN
    \* Step 3
    IF v.exc # None THEN v.exc
    ELSE IF ~v.valid THEN "False"
    \* Step 4
    ELSE IF ~is_iso8601(payment.payment_date) THEN "False"
    ELSE IF ~is_iso8601(get(dr, "decision_date", "")) THEN "False"
    ELSE
    LET payment_dt == parse_date(payment.payment_date)
        decision_dt == parse_date(dr.decision_date)
    IN
    IF ~DateComparable(payment_dt, decision_dt) THEN "TypeError"
    ELSE IF payment_dt.t < decision_dt.t THEN "False"
    \* Step 5
    ELSE IF payment.beneficiary # get(dr, "beneficiary", None) THEN "False"
    \* Step 6
    ELSE IF payment.currency # get(dr, "currency", None) THEN "False"
    \* Step 7
    ELSE IF ~DecimalParses(payment.value) THEN "False"
    ELSE IF ~DecimalParses(get(dr, "maximum_value", "0")) THEN "False"
    ELSE
    LET payment_value == Decimal(payment.value)
        maximum_value == Decimal(get(dr, "maximum_value", "0"))
        summed == sum_payments(pays, payment.decision_id)
    IN
    IF payment_value.kind = "nan" THEN "InvalidOperation"
    ELSE IF ~DecGt(payment_value, DecZero) THEN "False"
    ELSE IF summed.exc # None THEN summed.exc
    ELSE
    LET total_paid == DecimalOfStr(summed.str)
        new_total == DecAdd(total_paid, payment_value)
    IN
    IF new_total.kind = "nan" \/ maximum_value.kind = "nan" THEN "InvalidOperation"
    ELSE IF DecGt(new_total, maximum_value) THEN "False"
    \* Step 8
    ELSE IF /\ get(dr, "record_type", None) = "SDR"
            /\ ~(/\ get(dr, "maximum_term", "") # ""
                 /\ is_iso8601(dr.maximum_term))
    THEN "False"
    ELSE IF /\ get(dr, "record_type", None) = "SDR"
            /\ get(dr, "maximum_term", "") # ""
            /\ is_iso8601(dr.maximum_term)
            /\ ~DateComparable(payment_dt, parse_date(dr.maximum_term))
    THEN "TypeError"
    ELSE IF /\ get(dr, "record_type", None) = "SDR"
            /\ get(dr, "maximum_term", "") # ""
            /\ is_iso8601(dr.maximum_term)
            /\ payment_dt.t > parse_date(dr.maximum_term).t
    THEN "False"
    ELSE "True"

is_payment_authorized(recs, pays, payment) ==
    LET found == find_decision_record(recs, payment.decision_id)
    IN
    \* Step 1
    IF found = <<>> THEN "False"
    \* Step 2
    ELSE IF is_revoked(recs, payment.decision_id) THEN "False"
    ELSE
    LET dr == found[1]
        v == validate_dr(dr)
    IN
    \* Step 3
    IF v.exc # None THEN v.exc
    ELSE IF ~v.valid THEN "False"
    \* Step 4
    ELSE IF ~is_iso8601(payment.payment_date) THEN "False"
    ELSE IF ~is_iso8601(get(dr, "decision_date", "")) THEN "False"
    ELSE
    LET payment_dt == parse_date(payment.payment_date)
        decision_dt == parse_date(dr.decision_date)
    IN
    IF ~DateComparable(payment_dt, decision_dt) THEN "TypeError"
    ELSE IF payment_dt.t < decision_dt.t THEN "False"
    \* Step 5
    ELSE IF payment.beneficiary # get(dr, "beneficiary", None) THEN "False"
    \* Step 6
    ELSE IF payment.currency # get(dr, "currency", None) THEN "False"
    \* Step 7
    ELSE IF ~DecimalParses(payment.value) THEN "False"
    ELSE IF ~DecimalParses(get(dr, "maximum_value", "0")) THEN "False"
    ELSE
    LET payment_value == Decimal(payment.value)
        maximum_value == Decimal(get(dr, "maximum_value", "0"))
        summed == sum_payments(pays, payment.decision_id)
    IN
    IF payment_value.kind = "nan" THEN "InvalidOperation"
    ELSE IF ~DecGt(payment_value, DecZero) THEN "False"
    ELSE IF summed.exc # None THEN summed.exc
    ELSE
    LET total_paid == DecimalOfStr(summed.str)
        new_total == DecAdd(total_paid, payment_value)
    IN
    IF new_total.kind = "nan" \/ maximum_value.kind = "nan" THEN "InvalidOperation"
    ELSE IF DecGt(new_total, maximum_value) THEN "False"
    \* Step 8
    ELSE IF /\ get(dr, "record_type", None) = "SDR"
            /\ get(dr, "maximum_term", "") # ""
            /\ is_iso8601(dr.maximum_term)
            /\ ~DateComparable(payment_dt, parse_date(dr.maximum_term))
    THEN "TypeError"
    ELSE IF /\ get(dr, "record_type", None) = "SDR"
            /\ get(dr, "maximum_term", "") # ""
            /\ is_iso8601(dr.maximum_term)
            /\ payment_dt.t > parse_date(dr.maximum_term).t
    THEN "False"
    ELSE "True"

\* mutant: the currency branch of the reason-carrying variant grants
Reason_CurrencyGrants(ok, code) ==
    [exc |-> None, ok |-> IF code = "CURRENCY_MISMATCH" THEN "True" ELSE ok,
     reason |-> code, errors |-> <<>>]

Reason(ok, code) == [exc |-> None, ok |-> ok, reason |-> code, errors |-> <<>>]

Raised(exc) == [exc |-> exc, ok |-> "False", reason |-> "", errors |-> <<>>]

\* is_payment_authorized_with_reason: (authorized, reason_code), the errors of
\* "INVALID_RECORD: {errors}" kept apart from the code
is_payment_authorized_with_reason(recs, pays, payment) ==
    LET found == find_decision_record(recs, payment.decision_id)
    IN
    IF found = <<>> THEN Reason("False", "RECORD_NOT_FOUND")
    ELSE IF is_revoked(recs, payment.decision_id) THEN Reason("False", "DECISION_REVOKED")
    ELSE
    LET dr == found[1]
        v == validate_dr(dr)
    IN
    IF v.exc # None THEN Raised(v.exc)
    ELSE IF ~v.valid
    THEN [exc |-> None, ok |-> "False", reason |-> "INVALID_RECORD", errors |-> v.errors]
    ELSE IF ~is_iso8601(payment.payment_date) THEN Reason("False", "INVALID_PAYMENT_DATE")
    ELSE IF ~is_iso8601(get(dr, "decision_date", "")) THEN Reason("False", "INVALID_DECISION_DATE")
    ELSE
    LET payment_dt == parse_date(payment.payment_date)
        decision_dt == parse_date(dr.decision_date)
    IN
    IF ~DateComparable(payment_dt, decision_dt) THEN Raised("TypeError")
    ELSE IF payment_dt.t < decision_dt.t THEN Reason("False", "PAYMENT_BEFORE_DECISION")
    ELSE IF payment.beneficiary # get(dr, "beneficiary", None)
    THEN Reason("False", "BENEFICIARY_MISMATCH")
    ELSE IF payment.currency # get(dr, "currency", None)
    THEN Reason("False", "CURRENCY_MISMATCH")
    ELSE IF ~DecimalParses(payment.value) \/ ~DecimalParses(get(dr, "maximum_value", "0"))
    THEN Reason("False", "INVALID_NUMERIC_VALUE")
    ELSE
    LET payment_value == Decimal(payment.value)
        maximum_value == Decimal(get(dr, "maximum_value", "0"))
        summed == sum_payments(pays, payment.decision_id)
    IN
    IF payment_value.kind = "nan" THEN Raised("InvalidOperation")
    ELSE IF ~DecGt(payment_value, DecZero) THEN Reason("False", "INVALID_PAYMENT_VALUE")
    ELSE IF summed.exc # None THEN Raised(summed.exc)
    ELSE
    LET total_paid == DecimalOfStr(summed.str)
        new_total == DecAdd(total_paid, payment_value)
    IN
    IF new_total.kind = "nan" \/ maximum_value.kind = "nan" THEN Raised("InvalidOperation")
    ELSE IF DecGt(new_total, maximum_value) THEN Reason("False", "EXCEEDS_MAXIMUM_VALUE")
    ELSE IF /\ get(dr, "record_type", None) = "SDR"
            /\ get(dr, "maximum_term", "") # ""
            /\ is_iso8601(dr.maximum_term)
            /\ ~DateComparable(payment_dt, parse_date(dr.maximum_term))
    THEN Raised("TypeError")
    ELSE IF /\ get(dr, "record_type", None) = "SDR"
            /\ get(dr, "maximum_term", "") # ""
            /\ is_iso8601(dr.maximum_term)
            /\ payment_dt.t > parse_date(dr.maximum_term).t
    THEN Reason("False", "EXCEPTION_EXPIRED")
    ELSE Reason("True", "AUTHORIZED")

-----------------------------------------------------------------------------
(* records.py: the record factory.  args holds the keyword arguments; an   *)
(* argument passed as None is absent from args.                            *)

Restrict(f, keys) == [k \in (DOMAIN f) \cap keys |-> f[k]]

DRArgKeys == {"decision_id", "authority_id", "deciders_id", "act_type",
              "currency", "maximum_value", "beneficiary", "legal_basis",
              "decision_date", "record_timestamp", "signatures"}

\* the DR create_decision_record assembles from its arguments and the last
\* stored record
DecisionRecordOf(recs, args) ==
    LET all == get_all_records(recs)
        previous_record == IF Len(all) = 0 THEN <<>> ELSE <<all[Len(all)]>>
        previous_hash == compute_previous_hash(get(args, "authority_id", None),
                                               get(args, "record_timestamp", None),
                                               previous_record)
    IN  ("record_type" :> "DR") @@ ("previous_record_hash" :> previous_hash)
        @@ Restrict(args, DRArgKeys)

\* mutant: the assembled record is appended without being validated
create_decision_record_NoValidation(recs, args) ==
    LET dr == DecisionRecordOf(recs, args)
        a == append_record(recs, dr)
    IN  [exc |-> a.exc, recs |-> a.recs, errors |-> <<>>,
         ret |-> IF a.exc = None THEN <<dr>> ELSE <<>>]

\* create_decision_record: the exception raised ("None" when it returns), the
\* records table afterwards, the codes of the validation error and the
\* returned DR (a sequence, empty when the call raises)
create_decision_record(recs, args) ==
    LET dr == DecisionRecordOf(recs, args)
        v == validate_dr(dr)
    IN  IF v.exc # None
        THEN [exc |-> v.exc, recs |-> recs, errors |-> <<>>, ret |-> <<>>]
        ELSE IF ~v.valid
        THEN [exc |-> "ValueError: Invalid Decision Record", recs |-> recs,
              errors |-> v.errors, ret |-> <<>>]
        ELSE LET a == append_record(recs, dr)
             IN [exc |-> a.exc, recs |-> a.recs, errors |-> <<>>,
                 ret |-> IF a.exc = None THEN <<dr>> ELSE <<>>]

RRArgKeys == {"revocation_id", "target_decision_id", "authority_id",
              "deciders_id", "revocation_reason", "revocation_date",
              "record_timestamp", "signatures"}

\* the RR create_revocation_record assembles from its arguments and the last
\* stored record; revocation_date defaults to record_timestamp
RevocationRecordOf(recs, args) ==
    LET all == get_all_records(recs)
        previous_record == IF Len(all) = 0 THEN <<>> ELSE <<all[Len(all)]>>
        previous_hash == compute_previous_hash(get(args, "authority_id", None),
                                               get(args, "record_timestamp", None),
                                               previous_record)
        dated == IF Has(args, "revocation_date") \/ ~Has(args, "record_timestamp")
                 THEN args
                 ELSE ("revocation_date" :> args.record_timestamp) @@ args
    IN  ("record_type" :> "RR") @@ ("previous_record_hash" :> previous_hash)
        @@ Restrict(dated, RRArgKeys)

\* mutant: the record is built and validated before the target is looked up
create_revocation_record_ValidatesFirst(recs, args) ==
    LET rr == RevocationRecordOf(recs, args)
        v == validate_rr(rr)
    IN  IF ~v.valid
        THEN [exc |-> "ValueError: Invalid Revocation Record", recs |-> recs,
              errors |-> v.errors]
        ELSE IF find_decision_record(recs, args.target_decision_id) = <<>>
        THEN [exc |-> "ValueError: Target decision not found", recs |-> recs,
              errors |-> <<>>]
        ELSE IF is_revoked(recs, args.target_decision_id)
        THEN [exc |-> "ValueError: Decision already revoked", recs |-> recs,
              errors |-> <<>>]
        ELSE LET a == append_record(recs, rr)
             IN [exc |-> a.exc, recs |-> a.recs, errors |-> <<>>]

\* create_revocation_record: the two lookups come before the RR is built
create_revocation_record(recs, args) ==
    IF find_decision_record(recs, args.target_decision_id) = <<>>
    THEN [exc |-> "ValueError: Target decision not found", recs |-> recs,
          errors |-> <<>>]
    ELSE IF is_revoked(recs, args.target_decision_id)
    THEN [exc |-> "ValueError: Decision already revoked", recs |-> recs,
          errors |-> <<>>]
    ELSE
    LET rr == RevocationRecordOf(recs, args)
        v == validate_rr(rr)
    IN  IF ~v.valid
        THEN [exc |-> "ValueError: Invalid Revocation Record", recs |-> recs,
              errors |-> v.errors]
        ELSE LET a == append_record(recs, rr)
             IN [exc |-> a.exc, recs |-> a.recs, errors |-> <<>>]

-----------------------------------------------------------------------------
(* Inputs of the operations *)

Authority == "GOV-TEST-001"

DRArgs(decision_id, maximum_value, decision_date) ==
    [decision_id |-> decision_id,
     authority_id |-> Authority,
     deciders_id |-> <<"DECIDER-001">>,
     act_type |-> "contract",
     currency |-> "BRL",
     maximum_value |-> maximum_value,
     beneficiary |-> "SUPPLIER-TEST",
     legal_basis |-> "Test Law",
     decision_date |-> decision_date,
     record_timestamp |-> T2,
     signatures |-> <<"SIG-001">>]

FactoryDRInputs ==
    {DRArgs(D1, "10000.00", T1), DRArgs(D2, "10000.00", T1),
     DRArgs(D1, "abc", T1), DRArgs(D1, "10000.00", T3naive)}

RRArgs(target_decision_id) ==
    [revocation_id |-> R1,
     target_decision_id |-> target_decision_id,
     authority_id |-> Authority,
     deciders_id |-> <<"DECIDER-001">>,
     revocation_reason |-> "Test revocation",
     record_timestamp |-> T2,
     signatures |-> <<"SIG-001">>]

FactoryRRInputs == {RRArgs(d) : d \in {D1, D2}}

\* records handed to append_record directly, before previous_record_hash is set
DirectBodies ==
    << \* a revocation of D1
       ("record_type" :> "RR") @@ ("revocation_date" :> T2) @@ RRArgs(D1),
       \* a decision record without authority_id
       ("record_type" :> "DR")
           @@ Restrict(DRArgs(D2, "10000.00", T1), DRArgKeys \ {"authority_id"}) >>

HashChoices == {"genesis", "last", "first", "absent"}

\* the record passed to append_record: body i with the chosen link
DirectRecord(recs, i, h) ==
    LET body == DirectBodies[i]
        all == get_all_records(recs)
    IN  CASE h = "genesis" ->
                ("previous_record_hash" :>
                    genesis_hash(get(body, "authority_id", ""),
                                 get(body, "record_timestamp", ""))) @@ body
          [] h = "last" ->
                IF Len(all) = 0 THEN body
                ELSE ("previous_record_hash" :> record_hash(all[Len(all)])) @@ body
          [] h = "first" ->
                IF Len(all) = 0 THEN body
                ELSE ("previous_record_hash" :> record_hash(all[1])) @@ body
          [] OTHER -> body

Payment(decision_id, beneficiary, currency, value, payment_date) ==
    [decision_id |-> decision_id, beneficiary |-> beneficiary,
     currency |-> currency, value |-> value, payment_date |-> payment_date]

\* every payment the properties range over
PaymentUniverse ==
    [decision_id : {D1, D2},
     beneficiary : {"SUPPLIER-TEST", "OTHER"},
     currency : {"BRL", "USD"},
     value : {"6000.00", "4000.00", "0", "-100.00", "NaN", "abc"},
     payment_date : {T0, T3, T3naive, NotADate}]

\* the payments the engine is asked about and callers try to make
PaymentProbes ==
    {Payment(D1, "SUPPLIER-TEST", "BRL", "5000.00", T3),
     Payment(D1, "SUPPLIER-TEST", "BRL", "4000.00", T3),
     Payment(D2, "SUPPLIER-TEST", "BRL", "4000.00", T3naive)}

\* the rows record_payment is asked to store
RecordedValues == {"6000.00"}

-----------------------------------------------------------------------------
(* State and operations *)

Callers == {"c1", "c2"}

Init ==
    /\ records = <<>>
    /\ payments = <<>>
    /\ result = [op |-> "init"]
    /\ callers = [c \in Callers |-> <<>>]

CreateDecisionRecord(args) ==
    LET o == create_decision_record(records, args)
    IN  /\ o.exc = None => Len(records) < MaxRecords
        /\ records' = o.recs
        /\ result' = [op |-> "create_decision_record", exc |-> o.exc,
                      errors |-> o.errors]
        /\ UNCHANGED <<payments, callers>>

CreateRevocationRecord(args) ==
    LET o == create_revocation_record(records, args)
    IN  /\ o.exc = None => Len(records) < MaxRecords
        /\ records' = o.recs
        /\ result' = [op |-> "create_revocation_record", exc |-> o.exc,
                      errors |-> o.errors]
        /\ UNCHANGED <<payments, callers>>

AppendRecord(record) ==
    LET o == append_record(records, record)
    IN  /\ o.exc = None => Len(records) < MaxRecords
        /\ records' = o.recs
        /\ result' = IF o.exc = None
                     THEN [op |-> "append_record", exc |-> None, hash |-> o.hash]
                     ELSE [op |-> "append_record", exc |-> o.exc]
        /\ UNCHANGED <<payments, callers>>

RecordPayment(payment_id, decision_id, beneficiary, currency, value, payment_date) ==
    LET o == record_payment(payments, payment_id, decision_id, beneficiary,
                            currency, value, payment_date)
    IN  /\ o.exc = None => Len(payments) < MaxPayments
        /\ payments' = o.pays
        /\ result' = [op |-> "record_payment", exc |-> o.exc]
        /\ UNCHANGED <<records, callers>>

\* mutant: a granted payment is recorded by the check itself
IsPaymentAuthorized_Records(payment) ==
    LET ret == is_payment_authorized(records, payments, payment)
    IN  /\ result' = [op |-> "is_payment_authorized", payment |-> payment,
                      ret |-> ret]
        /\ payments' = IF ret = "True" /\ Len(payments) < MaxPayments
                       THEN Append(payments,
                                   [payment_id |-> Len(payments) + 1,
                                    decision_id |-> payment.decision_id,
                                    beneficiary |-> payment.beneficiary,
                                    currency |-> payment.currency,
                                    value |-> payment.value,
                                    payment_date |-> payment.payment_date])
                       ELSE payments
        /\ UNCHANGED <<records, callers>>

IsPaymentAuthorized(payment) ==
    /\ result' = [op |-> "is_payment_authorized", payment |-> payment,
                  ret |-> is_payment_authorized(records, payments, payment)]
    /\ UNCHANGED <<records, payments, callers>>

IsPaymentAuthorizedWithReason(payment) ==
    /\ result' = [op |-> "is_payment_authorized_with_reason", payment |-> payment,
                  out |-> is_payment_authorized_with_reason(records, payments, payment)]
    /\ UNCHANGED <<records, payments, callers>>

VerifyChainIntegrity ==
    /\ result' = [op |-> "verify_chain_integrity",
                  chain |-> verify_chain_integrity(records)]
    /\ UNCHANGED <<records, payments, callers>>

FactoryStep ==
    \/ \E args \in FactoryDRInputs : CreateDecisionRecord(args)
    \/ CreateRevocationRecord(RRArgs(D1))

DirectAppendStep ==
    \E i \in 1..Len(DirectBodies), h \in HashChoices :
        AppendRecord(DirectRecord(records, i, h))

RecordPaymentStep ==
    \E id \in 1..(Len(payments) + 1), v \in RecordedValues :
        RecordPayment(id, D1, "SUPPLIER-TEST", "BRL", v, T3)

AuthorizeStep ==
    \/ \E p \in PaymentProbes : IsPaymentAuthorized(p)
    \/ \E p \in PaymentProbes : IsPaymentAuthorizedWithReason(p)

Next ==
    \/ FactoryStep
    \/ DirectAppendStep
    \/ RecordPaymentStep
    \/ AuthorizeStep
    \/ VerifyChainIntegrity

Spec == Init /\ [][Next]_vars

-----------------------------------------------------------------------------
(* Callers of the engine, as in demo/fides_run.py: a payment is recorded   *)
(* only after is_payment_authorized returned True for it.                  *)

\* the payments callers try to make
CallerPayments ==
    {Payment(D1, "SUPPLIER-TEST", "BRL", v, T3) :
        v \in {"6000.00", "4000.00", "20000.00", "NaN"}}
    \cup {Payment(D2, "SUPPLIER-TEST", "BRL", "6000.00", T3)}

\* "if is_payment_authorized(ledger, p): ledger.record_payment(...)" run as one
\* step, with a fresh payment_id
AuthorizeAndRecord(payment) ==
    LET ret == is_payment_authorized(records, payments, payment)
        o == record_payment(payments, Len(payments) + 1, payment.decision_id,
                            payment.beneficiary, payment.currency,
                            payment.value, payment.payment_date)
    IN  /\ ret = "True" => Len(payments) < MaxPayments
        /\ payments' = IF ret = "True" THEN o.pays ELSE payments
        /\ result' = [op |-> "authorize_and_record", ret |-> ret]
        /\ UNCHANGED <<records, callers>>

\* the same statement run by caller c in two steps: the check ...
CallerAuthorize(c, payment) ==
    LET ret == is_payment_authorized(records, payments, payment)
    IN  /\ callers[c] = <<>>
        /\ callers' = IF ret = "True" THEN [callers EXCEPT ![c] = <<payment>>]
                      ELSE callers
        /\ result' = [op |-> "caller_check", ret |-> ret]
        /\ UNCHANGED <<records, payments>>

\* ... and then the recording of the payment it was granted
CallerRecord(c) ==
    /\ callers[c] # <<>>
    /\ Len(payments) < MaxPayments
    /\ LET payment == callers[c][1]
           o == record_payment(payments, Len(payments) + 1, payment.decision_id,
                               payment.beneficiary, payment.currency,
                               payment.value, payment.payment_date)
       IN  /\ payments' = o.pays
           /\ result' = [op |-> "record_payment", exc |-> o.exc]
    /\ callers' = [callers EXCEPT ![c] = <<>>]
    /\ UNCHANGED records

\* decisions made through the factory, one of them twice with another limit,
\* and the revocation of D1
LimitFactoryStep ==
    \/ \E args \in {DRArgs(D1, "10000.00", T1), DRArgs(D1, "20000.00", T1),
                     DRArgs(D2, "10000.00", T1)} : CreateDecisionRecord(args)
    \/ CreateRevocationRecord(RRArgs(D1))

AtomicPaymentStep == \E p \in CallerPayments : AuthorizeAndRecord(p)

AtomicNext ==
    \/ LimitFactoryStep
    \/ DirectAppendStep
    \/ AtomicPaymentStep

SpecAtomic == Init /\ [][AtomicNext]_vars

\* the decisions the racing callers pay against
RaceFactoryStep ==
    \/ \E d \in {D1, D2} : CreateDecisionRecord(DRArgs(d, "10000.00", T1))
    \/ CreateRevocationRecord(RRArgs(D1))

RacePayments ==
    {Payment(D1, "SUPPLIER-TEST", "BRL", v, T3) :
        v \in {"6000.00", "4000.00", "20000.00"}}

CallerAuthorizeStep == \E c \in Callers, p \in RacePayments : CallerAuthorize(c, p)

CallerRecordStep == \E c \in Callers : CallerRecord(c)

RaceNext ==
    \/ RaceFactoryStep
    \/ CallerAuthorizeStep
    \/ CallerRecordStep

SpecRace == Init /\ [][RaceNext]_vars

\* a ledger built through the factory alone, at varying record timestamps
ChainFactoryStep ==
    \/ \E d \in {D1, D2}, m \in {"10000.00", "abc"}, ts \in {T2, T3} :
          CreateDecisionRecord(("record_timestamp" :> ts) @@ DRArgs(d, m, T1))
    \/ \E args \in FactoryRRInputs : CreateRevocationRecord(args)

FactoryNext ==
    \/ ChainFactoryStep
    \/ VerifyChainIntegrity

SpecFactory == Init /\ [][FactoryNext]_vars

-----------------------------------------------------------------------------
(* Properties *)

DecisionIds == {D1, D2}

\* a row of the records table is a decision record (DR or SDR) of decision d
DecisionStored(d) ==
    \E i \in 1..Len(records) :
        /\ records[i].record_type \in {"DR", "SDR"}
        /\ records[i].decision_id = d

\* a row of the records table is a revocation record targeting decision d
RevocationStored(d) ==
    \E i \in 1..Len(records) :
        /\ records[i].record_type = "RR"
        /\ records[i].target_decision_id = d

\* C1: no record, no payment.  In every reachable ledger state a payment whose
\* decision_id matches no stored DR/SDR is refused (False), whatever its
\* beneficiary, currency, value and payment_date are.
C1_NoRecordNoPayment ==
    \A p \in PaymentUniverse :
        ~DecisionStored(p.decision_id)
            => is_payment_authorized(records, payments, p) = "False"

\* C1 witness: the ledger holds a valid decision, and the engine has just
\* refused a payment that names another, unknown decision.
C1_Witness ==
    /\ result.op = "is_payment_authorized"
    /\ ~DecisionStored(result.payment.decision_id)
    /\ \E d \in DecisionIds : DecisionStored(d) /\ ~RevocationStored(d)
    /\ result.ret = "False"

\* C2: revocation is permanent and overrides every other check.  Once a
\* revocation record targeting d is stored, every payment on d is refused in
\* that state, and after any further step the revocation is still stored and
\* every payment on d is still refused.
C2_RevocationPermanent ==
    /\ [](\A p \in PaymentUniverse :
            RevocationStored(p.decision_id)
                => is_payment_authorized(records, payments, p) = "False")
    /\ [][\A d \in DecisionIds : RevocationStored(d) => RevocationStored(d)']_vars

\* the records table without its revocation rows
WithoutRevocations ==
    LET NotRR(row) == row.record_type # "RR" IN SelectSeq(records, NotRR)

\* C2 witness: D1 is revoked, a payment was recorded on it before, a record was
\* appended after the revocation, and the engine has just refused a payment
\* that every other check would let through.
C2_Witness ==
    /\ RevocationStored(D1)
    /\ records[Len(records)].record_type # "RR"
    /\ payments # <<>>
    /\ result.op = "is_payment_authorized"
    /\ result.payment.decision_id = D1
    /\ is_payment_authorized(WithoutRevocations, payments, result.payment) = "True"
    /\ result.ret = "False"


\* the exact total of the values recorded against decision d, rows from i on
RECURSIVE LogTotalFrom(_, _)
LogTotalFrom(d, i) ==
    IF i > Len(payments) THEN 0
    ELSE (IF payments[i].decision_id = d /\ DecimalParses(payments[i].value)
          THEN Decimal(payments[i].value).n ELSE 0) + LogTotalFrom(d, i + 1)

LogTotal(d) == LogTotalFrom(d, 1)

\* maximum_value of the first stored DR for d; 0 when there is none or it is
\* not a number
Limit(d) ==
    LET found == find_decision_record(records, d)
    IN  IF found = <<>> THEN 0
        ELSE IF ~DecimalParses(get(found[1], "maximum_value", "abc")) THEN 0
        ELSE Decimal(found[1].maximum_value).n

\* C3: sequential spending limit.  When payments are recorded only in one
\* step with their authorization, sum_payments(d) never exceeds maximum_value
\* of the first stored DR for d, for every decision d.
C3_SequentialLimit ==
    \A d \in DecisionIds :
        /\ sum_payments(payments, d) = [exc |-> None,
                                        str |-> DecStr([kind |-> "num", n |-> LogTotal(d), tiny |-> 0])]
        /\ LogTotal(d) <= Limit(d)

\* C3 witness: two payments were authorized and recorded on D1 up to the limit
\* exactly, and a further one has just been refused.
C3_Witness ==
    /\ Len(payments) = 2
    /\ LogTotal(D1) = Limit(D1)
    /\ LogTotal(D1) > 0
    /\ result = [op |-> "authorize_and_record", ret |-> "False"]

\* C4: authorize-then-record is not atomic.  Every recorded payment was
\* granted by is_payment_authorized on its own (its decision exists and its
\* value is positive and within maximum_value), yet the recorded total can
\* pass maximum_value when two callers check before either records.
C4_EachPaymentWithinLimit ==
    /\ \A i \in 1..Len(payments) :
          /\ DecisionStored(payments[i].decision_id)
          /\ is_positive_decimal(payments[i].value)
          /\ Decimal(payments[i].value).n <= Limit(payments[i].decision_id)
    /\ \A c \in Callers :
          callers[c] # <<>> =>
              /\ is_positive_decimal(callers[c][1].value)
              /\ Decimal(callers[c][1].value).n <= Limit(callers[c][1].decision_id)

\* C4 witness: the double spend.  Both callers have recorded the payment they
\* were granted, and the total on D1 exceeds maximum_value.
C4_DoubleSpend ==
    /\ Len(payments) = 2
    /\ \A c \in Callers : callers[c] = <<>>
    /\ result.op = "record_payment"
    /\ ~RevocationStored(D1)
    /\ LogTotal(D1) > Limit(D1)
    /\ Limit(D1) > 0


\* C5: a chain built through the factory alone verifies.  verify_chain_integrity
\* returns (True, None): record 0 carries genesis_hash of its own authority_id
\* and record_timestamp, every later record the hash of its predecessor.
C5_FactoryChainValid ==
    LET all == get_all_records(records)
    IN  /\ verify_chain_integrity(records) = <<TRUE, 0 - 1>>
        /\ \A i \in 1..Len(all) :
              IF i = 1
              THEN all[1].previous_record_hash =
                      genesis_hash(all[1].authority_id, all[1].record_timestamp)
              ELSE all[i].previous_record_hash = record_hash(all[i - 1])

\* C5 witness: a chain of three records holding two decisions and a
\* revocation has just been verified.
C5_Witness ==
    /\ Len(records) >= 3
    /\ RevocationStored(D1)
    /\ DecisionStored(D2)
    /\ result = [op |-> "verify_chain_integrity", chain |-> <<TRUE, 0 - 1>>]

\* the condition under which the claim says append_record refuses the record
LinkBroken(record) ==
    IF Len(records) = 0
    THEN ~(/\ Has(record, "previous_record_hash")
           /\ record.previous_record_hash =
                 genesis_hash(get(record, "authority_id", ""),
                              get(record, "record_timestamp", "")))
    ELSE ~(/\ Has(record, "previous_record_hash")
           /\ record.previous_record_hash =
                 record_hash(json_loads(records[Len(records)].record_data)))

ChainErrors == {"ValueError: Invalid genesis hash",
                "ValueError: Hash chain validation failed"}

Refused(errors) ==
    /\ result'.exc \in errors
    /\ records' = records
    /\ payments' = payments

Stored(record) ==
    /\ result'.exc = None
    /\ result'.hash = record_hash(record)
    /\ records' = Append(records, RecordRow(record))

\* C6 as stated: append_record fails with a chain error and leaves both tables
\* as they were when the link is broken, and in every other case stores the
\* record and returns its hash.
C6_Original ==
    [][result'.op = "append_record" =>
       \A i \in 1..Len(DirectBodies), h \in HashChoices :
          LET record == DirectRecord(records, i, h)
          IN  AppendRecord(record) =>
                  IF LinkBroken(record) THEN Refused(ChainErrors)
                  ELSE Stored(record)]_vars

\* C6 amended: as C6, except that a correctly linked record without
\* authority_id or record_timestamp is refused by the NOT NULL constraint of
\* the records table, leaving both tables as they were.
C6_AppendChecksLink ==
    [][result'.op = "append_record" =>
       \A i \in 1..Len(DirectBodies), h \in HashChoices :
          LET record == DirectRecord(records, i, h)
          IN  AppendRecord(record) =>
                  IF LinkBroken(record) THEN Refused(ChainErrors)
                  ELSE IF ~Has(record, "authority_id") \/ ~Has(record, "record_timestamp")
                  THEN Refused({"IntegrityError: NOT NULL constraint failed"})
                  ELSE Stored(record)]_vars

\* C6 witness: on a non-empty ledger an append has just been refused for its
\* link.
C6_Witness ==
    /\ Len(records) >= 1
    /\ result = [op |-> "append_record",
                 exc |-> "ValueError: Hash chain validation failed"]

IsPrefix(a, b) == Len(a) <= Len(b) /\ SubSeq(b, 1, Len(a)) = a

\* C7: the chain is append-only.  Every step leaves the stored records as a
\* prefix of the new record list, and a successful append adds exactly one
\* record at the end.
C7_AppendOnly ==
    [][/\ IsPrefix(records, records')
       /\ Len(records') <= Len(records) + 1
       /\ (/\ result'.op \in {"append_record", "create_decision_record",
                              "create_revocation_record"}
           /\ result'.exc = None)
             => Len(records') = Len(records) + 1]_vars

\* C7 witness: a record has just been appended behind two others.
C7_Witness ==
    /\ Len(records) = 3
    /\ result.op = "append_record"
    /\ result.exc = None

\* C8 as stated: is_payment_authorized never raises, it returns True or False
\* for every ledger state and every payment.
C8_NeverRaises ==
    \A p \in PaymentUniverse :
        is_payment_authorized(records, payments, p) \in {"True", "False"}

ReadOps == {"is_payment_authorized", "is_payment_authorized_with_reason"}

\* C9: the two decision functions are pure reads.  A call leaves the record
\* list and the payment log unchanged, so every payment gets the same answer
\* after the call as before; with 6000.00 recorded against 10000.00, 5000.00
\* is refused and 4000.00 is granted.
C9_PureRead ==
    /\ [][result'.op \in ReadOps =>
             /\ records' = records
             /\ payments' = payments
             /\ \A p \in PaymentProbes :
                   is_payment_authorized(records', payments', p)
                       = is_payment_authorized(records, payments, p)]_vars
    /\ [](\A p \in PaymentProbes :
             (/\ is_payment_authorized(records, <<>>, p) = "True"
              /\ Limit(p.decision_id) = 10000
              /\ sum_payments(payments, p.decision_id).exc = None
              /\ LogTotal(p.decision_id) = 6000)
                => is_payment_authorized(records, payments, p)
                      = (IF p.value = "4000.00" THEN "True" ELSE "False"))

\* C9 witness: 6000.00 is recorded on D1, the engine has just refused 5000.00,
\* and 4000.00 is still granted.
C9_Witness ==
    /\ LogTotal(D1) = 6000
    /\ result.op = "is_payment_authorized"
    /\ result.payment = Payment(D1, "SUPPLIER-TEST", "BRL", "5000.00", T3)
    /\ result.ret = "False"
    /\ is_payment_authorized(records, payments,
                             Payment(D1, "SUPPLIER-TEST", "BRL", "4000.00", T3)) = "True"

\* C10: the binary and the reason-carrying variant agree.  For every ledger
\* state and payment the binary outcome is the first component of the other
\* (they raise the same exception when one does), and the reason is
\* AUTHORIZED exactly when that component is True.
C10_VariantsAgree ==
    \A p \in PaymentUniverse :
        LET b == is_payment_authorized(records, payments, p)
            w == is_payment_authorized_with_reason(records, payments, p)
        IN  IF w.exc # None THEN b = w.exc
            ELSE /\ b = w.ok
                 /\ (w.reason = "AUTHORIZED") <=> (w.ok = "True")

\* C10 witness: the reason-carrying variant has just granted a payment, and
\* another payment on the same decision is refused by both for its currency.
C10_Witness ==
    /\ result.op = "is_payment_authorized_with_reason"
    /\ result.out.ok = "True"
    /\ result.out.reason = "AUTHORIZED"
    /\ \E p \in PaymentUniverse :
          /\ p.decision_id = result.payment.decision_id
          /\ is_payment_authorized(records, payments, p) = "False"
          /\ is_payment_authorized_with_reason(records, payments, p).reason
                = "CURRENCY_MISMATCH"

-----------------------------------------------------------------------------
(* The authorization engine over ledgers that hold a decision record of     *)
(* each kind: made by the factory, or handed to append_record by a caller   *)
(* that computed the link itself (a term-limited SDR, a DR with two         *)
(* signatures for one decider, a DR whose record_timestamp has no offset).  *)

\* records are appended directly only while the ledger holds fewer records
MaxDirect == 1

EngineBodies ==
    << ("record_type" :> "SDR") @@ ("maximum_term" :> T2)
           @@ DRArgs(D1, "10000.00", T1),
       ("record_type" :> "DR") @@ ("signatures" :> <<"SIG-001", "SIG-002">>)
           @@ DRArgs(D1, "10000.00", T1),
       ("record_type" :> "DR") @@ ("record_timestamp" :> T3naive)
           @@ DRArgs(D1, "10000.00", T1),
       ("record_type" :> "DR") @@ DRArgs(D1, "10000.00", T3) >>

\* the record with the link the factory would give it
EngineRecord(recs, body) ==
    LET all == get_all_records(recs)
        previous_record == IF Len(all) = 0 THEN <<>> ELSE <<all[Len(all)]>>
    IN  ("previous_record_hash" :>
            compute_previous_hash(body.authority_id, body.record_timestamp,
                                  previous_record)) @@ body

EngineUniverse ==
    [decision_id : {D1, D2},
     beneficiary : {"SUPPLIER-TEST", "supplier-test"},
     currency : {"BRL", "USD"},
     value : {"4000.00", "4001.00", "4000.0000000000000000000000001",
              "0", "-100.00", "abc", "NaN"},
     payment_date : {T0, T1, T2, T3, T3naive, NotADate}]

\* the payments the engine is asked about
EngineProbes ==
    {Payment(D1, "SUPPLIER-TEST", "BRL", "4000.00", T1),
     Payment(D1, "supplier-test", "USD", "4001.00", T3),
     Payment(D1, "SUPPLIER-TEST", "BRL", "4000.0000000000000000000000001", T1)}

EngineAppendStep ==
    /\ Len(records) < MaxDirect
    /\ \E i \in 1..Len(EngineBodies) :
          AppendRecord(EngineRecord(records, EngineBodies[i]))

EngineFactoryStep ==
    \/ CreateDecisionRecord(DRArgs(D1, "10000.00", T1))
    \/ CreateRevocationRecord(RRArgs(D1))

EnginePaymentStep ==
    RecordPayment(Len(payments) + 1, D1, "SUPPLIER-TEST", "BRL", "6000.00", T3)

EngineAuthorizeStep ==
    \/ \E p \in EngineProbes : IsPaymentAuthorized(p)
    \/ \E p \in EngineProbes : IsPaymentAuthorizedWithReason(p)

EngineNext ==
    \/ EngineAppendStep
    \/ EngineFactoryStep
    \/ EnginePaymentStep
    \/ EngineAuthorizeStep

SpecEngine == Init /\ [][EngineNext]_vars

-----------------------------------------------------------------------------
(* The eight checks of the decision procedure, each stated on its own: what *)
(* it requires of the ledger and the payment, whatever the other checks say *)

\* the exact sum of the recorded values of decision d, in units and tiny units
RECURSIVE ExactPaidFrom(_, _, _)
ExactPaidFrom(d, i, field) ==
    IF i > Len(payments) THEN 0
    ELSE (IF payments[i].decision_id = d /\ DecimalParses(payments[i].value)
          THEN Decimal(payments[i].value)[field] ELSE 0)
         + ExactPaidFrom(d, i + 1, field)

ExactPaid(d) ==
    [kind |-> "num", n |-> ExactPaidFrom(d, 1, "n"),
     tiny |-> ExactPaidFrom(d, 1, "tiny")]

\* the decision record the payment is checked against
TheDR(p) == find_decision_record(records, p.decision_id)[1]

Check1Fails(p) == find_decision_record(records, p.decision_id) = <<>>

Check2Fails(p) == RevocationStored(p.decision_id)

Check3Fails(p) ==
    LET v == validate_dr(TheDR(p)) IN v.exc # None \/ ~v.valid

Check4Fails(p) ==
    ~(/\ is_iso8601(p.payment_date)
      /\ Has(TheDR(p), "decision_date")
      /\ is_iso8601(TheDR(p).decision_date)
      /\ parse_date(p.payment_date).aware = parse_date(TheDR(p).decision_date).aware
      /\ parse_date(p.payment_date).t >= parse_date(TheDR(p).decision_date).t)

Check5Fails(p) == p.beneficiary # get(TheDR(p), "beneficiary", None)

Check6Fails(p) == p.currency # get(TheDR(p), "currency", None)

\* the value is a positive decimal and fits the exact headroom
Check7Fails(p) ==
    ~(/\ is_positive_decimal(p.value)
      /\ is_positive_decimal(get(TheDR(p), "maximum_value", "0"))
      /\ LET paid == ExactPaid(p.decision_id)
             total == [kind |-> "num", n |-> paid.n + Decimal(p.value).n,
                       tiny |-> paid.tiny + Decimal(p.value).tiny]
         IN ~DecGt(total, Decimal(TheDR(p).maximum_value)))

Check8Fails(p) ==
    /\ get(TheDR(p), "record_type", None) = "SDR"
    /\ Has(TheDR(p), "maximum_term")
    /\ is_iso8601(TheDR(p).maximum_term)
    /\ ~(/\ is_iso8601(p.payment_date)
         /\ parse_date(p.payment_date).aware = parse_date(TheDR(p).maximum_term).aware
         /\ parse_date(p.payment_date).t <= parse_date(TheDR(p).maximum_term).t)

\* the numbers of the checks the payment fails
FailedChecks(p) ==
    IF Check1Fails(p) THEN {1}
    ELSE {k \in 2..8 :
            CASE k = 2 -> Check2Fails(p)
              [] k = 3 -> Check3Fails(p)
              [] k = 4 -> Check4Fails(p)
              [] k = 5 -> Check5Fails(p)
              [] k = 6 -> Check6Fails(p)
              [] k = 7 -> Check7Fails(p)
              [] OTHER -> Check8Fails(p)}

FirstFailed(p) == CHOOSE k \in FailedChecks(p) : \A j \in FailedChecks(p) : k <= j

\* the reason codes of each check
CheckCodes ==
    << {"RECORD_NOT_FOUND"}, {"DECISION_REVOKED"}, {"INVALID_RECORD"},
       {"INVALID_PAYMENT_DATE", "INVALID_DECISION_DATE", "PAYMENT_BEFORE_DECISION"},
       {"BENEFICIARY_MISMATCH"}, {"CURRENCY_MISMATCH"},
       {"INVALID_NUMERIC_VALUE", "INVALID_PAYMENT_VALUE", "EXCEEDS_MAXIMUM_VALUE"},
       {"EXCEPTION_EXPIRED"} >>

\* C11 as stated: for every ledger state and payment that fails at least one
\* check, is_payment_authorized_with_reason returns a rejection whose reason
\* is a code of the lowest-numbered failing check.
C11_FirstFailingCheck ==
    \A p \in EngineUniverse :
        FailedChecks(p) # {} =>
            LET w == is_payment_authorized_with_reason(records, payments, p)
            IN  /\ w.exc = None
                /\ w.ok = "False"
                /\ w.reason \in CheckCodes[FirstFailed(p)]

\* the exact total the payment would bring the decision to
ExactTotalWith(p) ==
    LET paid == ExactPaid(p.decision_id)
    IN  [kind |-> "num", n |-> paid.n + Decimal(p.value).n,
         tiny |-> paid.tiny + Decimal(p.value).tiny]

\* C12 as stated: the limit comparison is inclusive and exact.  For a payment
\* of positive value that passes every other check, is_payment_authorized
\* returns True when the value is within the headroom maximum_value -
\* sum of the recorded values (equal to it included), and False when it
\* exceeds the headroom by any amount.
C12_InclusiveExactLimit ==
    \A p \in EngineUniverse :
        (/\ FailedChecks(p) \subseteq {7}
         /\ is_positive_decimal(p.value))
            => is_payment_authorized(records, payments, p)
                  = (IF DecGt(ExactTotalWith(p), Decimal(TheDR(p).maximum_value))
                     THEN "False" ELSE "True")

\* payment_date and the decision_date of the DR are timestamps that compare
DatesCompare(p) ==
    /\ ~Check1Fails(p)
    /\ is_iso8601(p.payment_date)
    /\ Has(TheDR(p), "decision_date")
    /\ is_iso8601(TheDR(p).decision_date)
    /\ parse_date(p.payment_date).aware = parse_date(TheDR(p).decision_date).aware

\* C13 as stated: a payment dated strictly before the decision_date of its DR
\* is rejected (False) whatever its other fields are, and a payment dated
\* exactly at decision_date that fails no other check is authorized.
C13_EarlierDateRejected ==
    \A p \in EngineUniverse :
        DatesCompare(p) =>
            /\ parse_date(p.payment_date).t < parse_date(TheDR(p).decision_date).t
                  => is_payment_authorized(records, payments, p) = "False"
            /\ (/\ parse_date(p.payment_date).t = parse_date(TheDR(p).decision_date).t
                /\ FailedChecks(p) = {})
                  => is_payment_authorized(records, payments, p) = "True"

\* C14: is_payment_authorized returns True only for a payment whose
\* beneficiary and currency equal those of its DR, and a payment that differs
\* from an authorized one in the beneficiary alone, or in the currency alone,
\* is rejected.
C14_BeneficiaryAndCurrency ==
    \A p \in EngineUniverse :
        is_payment_authorized(records, payments, p) = "True" =>
            /\ ~Check1Fails(p)
            /\ p.beneficiary = TheDR(p).beneficiary
            /\ p.currency = TheDR(p).currency
            /\ \A q \in EngineUniverse :
                  (\/ q = [p EXCEPT !.beneficiary = q.beneficiary]
                   \/ q = [p EXCEPT !.currency = q.currency])
                  => (q = p \/ is_payment_authorized(records, payments, q) = "False")

\* C14 witness: the engine has just granted a payment, and the payments that
\* differ from it in the case of the beneficiary or in the currency are
\* refused.
C14_Witness ==
    /\ result.op = "is_payment_authorized"
    /\ result.ret = "True"
    /\ is_payment_authorized(records, payments,
                             [result.payment EXCEPT !.beneficiary = "supplier-test"])
          = "False"
    /\ is_payment_authorized(records, payments,
                             [result.payment EXCEPT !.currency = "USD"]) = "False"

\* decimal strings that are zero, negative, or that Decimal() does not parse
NonPositiveValues == {"0", "-100.00", "abc"}

\* C15 as stated: a payment whose value is zero, negative or not parsable as
\* a decimal is rejected (False) by is_payment_authorized in every ledger
\* state, whatever the headroom of the decision.
C15_NonPositiveValueRejected ==
    \A p \in EngineUniverse :
        p.value \in NonPositiveValues
            => is_payment_authorized(records, payments, p) = "False"

-----------------------------------------------------------------------------
(* The factory called with arguments that break validation rules, lack a    *)
(* required argument, or name a target that cannot be revoked               *)

WideDRArgs ==
    {Restrict([DRArgs(d, m, dd) EXCEPT !.act_type = at], DRArgKeys \ miss) :
        d \in {D1, NotUuid}, m \in {"10000.00", "0"},
        dd \in {T1, T3, T3naive, NotADate}, at \in {"contract", ""},
        miss \in {{}, {"currency"}, {"currency", "legal_basis"}}}

WideRRArgs ==
    {RRArgs(d) : d \in {D1, D2}}
    \cup {[RRArgs(d) EXCEPT !.deciders_id = <<>>] : d \in {D1, D2}}

WideFactoryStep ==
    \/ \E args \in WideDRArgs : CreateDecisionRecord(args)
    \/ \E args \in WideRRArgs : CreateRevocationRecord(args)

SpecFactoryInputs == Init /\ [][WideFactoryStep]_vars

LookupErrors == {"ValueError: Target decision not found",
                 "ValueError: Decision already revoked"}

\* C16: create_revocation_record fails with a lookup error and leaves the
\* record list unchanged when no decision record with the target decision_id
\* is stored or a revocation of it is already stored, also when its other
\* arguments would not pass validation; it fails so in no other case.
C16_RevocationLookup ==
    [][result'.op = "create_revocation_record" =>
       \A args \in WideRRArgs :
          CreateRevocationRecord(args) =>
             IF \/ ~DecisionStored(args.target_decision_id)
                \/ RevocationStored(args.target_decision_id)
             THEN /\ result'.exc \in LookupErrors
                  /\ records' = records
             ELSE result'.exc \notin LookupErrors]_vars

\* C16 witness: D1 is revoked and a further revocation of it has just been
\* refused.
C16_Witness ==
    /\ DecisionStored(D1)
    /\ RevocationStored(D1)
    /\ result.op = "create_revocation_record"
    /\ result.exc = "ValueError: Decision already revoked"

\* the rows that revoke decision d
RevocationsOf(d) ==
    {i \in 1..Len(records) :
        /\ records[i].record_type = "RR"
        /\ records[i].target_decision_id = d}

\* C17: in a ledger built through the factory alone, each decision_id is the
\* target of at most one revocation record.
C17_OneRevocationPerDecision ==
    \A d \in DecisionIds : Cardinality(RevocationsOf(d)) <= 1

\* C17 witness: the revocation of D1 is stored, there was room for another
\* record, and a second revocation of D1 has just been refused.
C17_Witness ==
    /\ Cardinality(RevocationsOf(D1)) = 1
    /\ Len(records) < MaxRecords
    /\ result.op = "create_revocation_record"
    /\ result.exc = "ValueError: Decision already revoked"

\* the rows that are decision records of decision d
DecisionRecordsOf(d) ==
    {i \in 1..Len(records) :
        /\ records[i].record_type \in {"DR", "SDR"}
        /\ records[i].decision_id = d}

\* C18 as stated: in a ledger built through the factory alone, each
\* decision_id belongs to at most one decision record, also when callers pass
\* the decision_id to create_decision_record themselves.
C18_OneRecordPerDecision ==
    \A d \in DecisionIds : Cardinality(DecisionRecordsOf(d)) <= 1

-----------------------------------------------------------------------------
(* The DR rules, stated one by one *)

CodesOf(errors) == {errors[i] : i \in 1..Len(errors)}

\* the required fields the record lacks
MissingFields(dr) == {DRRequired[i] : i \in 1..Len(DRRequired)} \ DOMAIN dr

\* decision_date <= record_timestamp is broken when both are datetimes of the
\* same kind and the first is the later one
DateOrderBroken(dr) ==
    /\ is_iso8601(dr.decision_date)
    /\ is_iso8601(dr.record_timestamp)
    /\ DateComparable(parse_date(dr.decision_date), parse_date(dr.record_timestamp))
    /\ parse_date(dr.decision_date).t > parse_date(dr.record_timestamp).t

\* the codes of the rules that a record holding every required field breaks
BrokenRuleCodes(dr) ==
    {c \in {"INVALID_DECISION_ID", "INVALID_DECIDERS_ID", "INVALID_ACT_TYPE",
            "INVALID_MAXIMUM_VALUE", "INVALID_DECISION_DATE",
            "INVALID_RECORD_TIMESTAMP", "DECISION_DATE_AFTER_RECORD_TIMESTAMP",
            "INVALID_SIGNATURES", "DECIDERS_SIGNATURES_MISMATCH"} :
        \/ c = "INVALID_DECISION_ID" /\ ~is_uuid_v4(dr.decision_id)
        \/ c = "INVALID_DECIDERS_ID" /\ dr.deciders_id = <<>>
        \/ c = "INVALID_ACT_TYPE" /\ dr.act_type = ""
        \/ c = "INVALID_MAXIMUM_VALUE" /\ ~is_positive_decimal(dr.maximum_value)
        \/ c = "INVALID_DECISION_DATE" /\ ~is_iso8601(dr.decision_date)
        \/ c = "INVALID_RECORD_TIMESTAMP" /\ ~is_iso8601(dr.record_timestamp)
        \/ c = "DECISION_DATE_AFTER_RECORD_TIMESTAMP" /\ DateOrderBroken(dr)
        \/ c = "INVALID_SIGNATURES" /\ dr.signatures = <<>>
        \/ c = "DECIDERS_SIGNATURES_MISMATCH"
              /\ Len(dr.deciders_id) # Len(dr.signatures)}

\* the codes a complete report on dr holds: one MISSING_ code per missing
\* field and nothing else, or one code per broken rule
ViolatedCodes(dr) ==
    IF MissingFields(dr) # {}
    THEN {MissingCode[f] : f \in MissingFields(dr)}
    ELSE BrokenRuleCodes(dr)

\* C19 as stated: create_decision_record validates before it appends.  When
\* the assembled DR violates a rule the call fails with the validation error,
\* the error lists the code of every violated rule, and the record list is
\* unchanged; when the call succeeds the record list has grown by exactly the
\* returned record.
C19_ValidatesBeforeAppend ==
    [][result'.op = "create_decision_record" =>
       \A args \in WideDRArgs :
          CreateDecisionRecord(args) =>
             LET dr == DecisionRecordOf(records, args)
                 o == create_decision_record(records, args)
             IN  /\ ViolatedCodes(dr) # {} =>
                       /\ result'.exc = "ValueError: Invalid Decision Record"
                       /\ CodesOf(result'.errors) = ViolatedCodes(dr)
                       /\ records' = records
                 /\ result'.exc = None =>
                       /\ Len(o.ret) = 1
                       /\ get_all_records(records')
                             = Append(get_all_records(records), o.ret[1])]_vars

-----------------------------------------------------------------------------
(* validate_dr applied to one decision record drawn from a set that breaks  *)
(* every rule in turn and in combination                                    *)

ValidateBase ==
    ("previous_record_hash" :> "0") @@ DRArgs(D1, "10000.00", T1)

ValidateInputs ==
    {Restrict([ValidateBase EXCEPT !.decision_id = d, !.deciders_id = ds,
                                   !.act_type = at, !.maximum_value = m,
                                   !.decision_date = dd, !.record_timestamp = rt,
                                   !.signatures = sg],
              DOMAIN ValidateBase \ miss) :
        d \in {D1, NotUuid}, ds \in {<<>>, <<"DECIDER-001">>},
        at \in {"contract", ""}, m \in {"10000.00", "abc"},
        dd \in {T1, T3, T3naive, NotADate}, rt \in {T2, T3naive, NotADate},
        sg \in {<<>>, <<"SIG-001">>, <<"SIG-001", "SIG-002">>},
        miss \in {{}, {"currency"}, {"decision_id", "signatures"}}}

ValidateInit ==
    /\ records = <<>>
    /\ payments = <<>>
    /\ callers = [c \in Callers |-> <<>>]
    /\ \E dr \in ValidateInputs : result = [op |-> "input", dr |-> dr]

ValidateStep ==
    /\ result.op = "input"
    /\ result' = [op |-> "validate_dr", dr |-> result.dr,
                  out |-> validate_dr(result.dr)]
    /\ UNCHANGED <<records, payments, callers>>

SpecValidate == ValidateInit /\ [][ValidateStep]_vars

\* C20 as stated: validate_dr returns the complete report.  With every
\* required field present the error list holds the code of each broken rule
\* and of no other, and valid is True exactly when the list is empty; with a
\* required field missing the list holds one MISSING_ code per missing field
\* and no other code.
C20_CompleteReport ==
    result.op = "validate_dr" =>
        /\ result.out.exc = None
        /\ CodesOf(result.out.errors) = ViolatedCodes(result.dr)
        /\ Len(result.out.errors) = Cardinality(ViolatedCodes(result.dr))
        /\ result.out.valid <=> result.out.errors = <<>>

-----------------------------------------------------------------------------
(* genesis_hash applied to two (authority_id, genesis_timestamp) pairs      *)

GenesisAuthorities == {"GOV", "GOV-TEST", "GOV-TEST-001", Authority \o "-X"}

GenesisTimestamps == {T1, T2, "001-" \o T1, "TEST-001-" \o T1}

GenesisInit ==
    /\ records = <<>>
    /\ payments = <<>>
    /\ callers = [c \in Callers |-> <<>>]
    /\ \E a1 \in GenesisAuthorities, t1 \in GenesisTimestamps,
          a2 \in GenesisAuthorities, t2 \in GenesisTimestamps :
          result = [op |-> "input", a1 |-> a1, t1 |-> t1, a2 |-> a2, t2 |-> t2]

GenesisStep ==
    /\ result.op = "input"
    /\ result' = [op |-> "genesis_hash",
                  a1 |-> result.a1, t1 |-> result.t1,
                  a2 |-> result.a2, t2 |-> result.t2,
                  h1 |-> genesis_hash(result.a1, result.t1),
                  h1again |-> genesis_hash(result.a1, result.t1),
                  h2 |-> genesis_hash(result.a2, result.t2)]
    /\ UNCHANGED <<records, payments, callers>>

SpecGenesis == GenesisInit /\ [][GenesisStep]_vars

\* C21 as stated: genesis_hash is deterministic, and two pairs that differ in
\* the authority id or in the timestamp have different seed strings and
\* different genesis hashes, also when ids and timestamps contain '-'.
C21_GenesisInjective ==
    result.op = "genesis_hash" =>
        /\ result.h1 = result.h1again
        /\ (result.a1 # result.a2 \/ result.t1 # result.t2) =>
              /\ GenesisSeed(result.a1, result.t1) # GenesisSeed(result.a2, result.t2)
              /\ result.h1 # result.h2

-----------------------------------------------------------------------------
(* canonical_json on dicts that remember the order in which their fields    *)
(* were inserted: a dict is the sequence of its (key, value) items, a value *)
(* is a string, a list or a dict                                            *)

PyStr(s) == [t |-> "str", v |-> s]

PyList(elems) == [t |-> "list", v |-> elems]

PyDict(items) == [t |-> "dict", v |-> items]

ItemKeys(items) == {items[i][1] : i \in 1..Len(items)}

ItemValue(items, k) == items[CHOOSE i \in 1..Len(items) : items[i][1] = k][2]

RECURSIVE json_dumps_InsertionOrder(_)
\* mutant: sort_keys is left out, the items keep their insertion order
json_dumps_InsertionOrder(value) ==
    IF value.t = "dict"
    THEN PyDict([i \in 1..Len(value.v) |->
                    <<value.v[i][1], json_dumps_InsertionOrder(value.v[i][2])>>])
    ELSE IF value.t = "list"
    THEN PyList([i \in 1..Len(value.v) |-> json_dumps_InsertionOrder(value.v[i])])
    ELSE value

RECURSIVE json_dumps(_)
\* json.dumps(value, sort_keys=True, separators=(',', ':')): the items of
\* every dict in alphabetical key order, the elements of a list as given
json_dumps(value) ==
    IF value.t = "dict"
    THEN LET Present(k) == k \in ItemKeys(value.v)
             ks == SelectSeq(AllKeys, Present)
         IN PyDict([i \in 1..Len(ks) |->
                       <<ks[i], json_dumps(ItemValue(value.v, ks[i]))>>])
    ELSE IF value.t = "list"
    THEN PyList([i \in 1..Len(value.v) |-> json_dumps(value.v[i])])
    ELSE value

\* the orders in which the items of a dict can have been inserted
Orderings(items) ==
    {p \in [1..Len(items) -> 1..Len(items)] :
        \A i, j \in 1..Len(items) : i # j => p[i] # p[j]}

Reordered(items, p) == [i \in 1..Len(items) |-> items[p[i]]]

CanonicalInner ==
    {PyDict(<< <<"act_type", PyStr("contract")>>, <<"currency", PyStr("BRL")>> >>),
     PyDict(<< <<"currency", PyStr("BRL")>>, <<"act_type", PyStr("contract")>> >>),
     PyDict(<< <<"act_type", PyStr("contract")>>, <<"currency", PyStr("USD")>> >>)}

CanonicalLists ==
    {PyList(<<PyStr("DECIDER-001"), PyStr("DECIDER-002")>>),
     PyList(<<PyStr("DECIDER-002"), PyStr("DECIDER-001")>>)}

CanonicalInputs ==
    {PyDict(Reordered(<< <<"authority_id", PyStr(a)>>, <<"deciders_id", l>>,
                         <<"legal_basis", n>> >>, p)) :
        a \in {Authority, "GOV"}, l \in CanonicalLists, n \in CanonicalInner,
        p \in Orderings(<<1, 2, 3>>)}

CanonicalInit ==
    /\ records = <<>>
    /\ payments = <<>>
    /\ callers = [c \in Callers |-> <<>>]
    /\ \E x \in CanonicalInputs, y \in CanonicalInputs :
          result = [op |-> "input", x |-> x, y |-> y]

CanonicalStep ==
    /\ result.op = "input"
    /\ result' = [op |-> "canonical_json", x |-> result.x, y |-> result.y,
                  cx |-> json_dumps(result.x), cy |-> json_dumps(result.y),
                  hx |-> sha256_hash(json_dumps(result.x)),
                  hy |-> sha256_hash(json_dumps(result.y))]
    /\ UNCHANGED <<records, payments, callers>>

SpecCanonical == CanonicalInit /\ [][CanonicalStep]_vars

RECURSIVE SameContent(_, _)
\* the same keys and values at every nesting level, lists compared in order
SameContent(x, y) ==
    /\ x.t = y.t
    /\ IF x.t = "dict"
       THEN /\ ItemKeys(x.v) = ItemKeys(y.v)
            /\ \A k \in ItemKeys(x.v) :
                  SameContent(ItemValue(x.v, k), ItemValue(y.v, k))
       ELSE IF x.t = "list"
       THEN /\ Len(x.v) = Len(y.v)
            /\ \A i \in 1..Len(x.v) : SameContent(x.v[i], y.v[i])
       ELSE x.v = y.v

\* C22: two records with the same keys and values at every nesting level have
\* the same canonical form and the same hash, in whatever order their fields
\* were inserted; records that differ in content, be it only in the order of
\* a list, have different canonical forms and hashes.
C22_CanonicalByContent ==
    result.op = "canonical_json" =>
        /\ SameContent(result.x, result.y) <=> result.cx = result.cy
        /\ result.cx = result.cy <=> result.hx = result.hy

\* C22 witness: two records with the same content whose fields were inserted
\* in different orders, at the top level and in the nested dict.
C22_Witness ==
    /\ result.op = "canonical_json"
    /\ SameContent(result.x, result.y)
    /\ result.x.v[1][1] # result.y.v[1][1]
    /\ ItemValue(result.x.v, "legal_basis") # ItemValue(result.y.v, "legal_basis")
    /\ result.hx = result.hy

-----------------------------------------------------------------------------
(* A records table that is also written through the ledger's database       *)
(* connection, behind append_record                                         *)

\* UPDATE records SET record_data = ... WHERE id = i: the stored record with
\* another maximum_value
AlterRow(i, v) ==
    /\ i \in 1..Len(records)
    /\ Has(json_loads(records[i].record_data), "maximum_value")
    /\ json_loads(records[i].record_data).maximum_value # v
    /\ records' = [records EXCEPT ![i].record_data =
                      SortedItems([json_loads(@) EXCEPT !.maximum_value = v])]
    /\ result' = [op |-> "alter_row"]
    /\ UNCHANGED <<payments, callers>>

\* DELETE FROM records WHERE id = i, on a chain that verified until then
DeleteRow(i) ==
    /\ i \in 1..Len(records)
    /\ verify_chain_integrity(records)[1]
    /\ records' = SubSeq(records, 1, i - 1) \o SubSeq(records, i + 1, Len(records))
    /\ result' = [op |-> "delete_row"]
    /\ UNCHANGED <<payments, callers>>

TamperFactoryStep ==
    \E d \in {D1, D2} : CreateDecisionRecord(DRArgs(d, "10000.00", T1))

TamperStep ==
    \/ \E i \in 1..MaxRecords : AlterRow(i, "20000.00")
    \/ \E i \in 1..MaxRecords : DeleteRow(i)

TamperNext ==
    \/ TamperFactoryStep
    \/ TamperStep
    \/ VerifyChainIntegrity

SpecTamper == Init /\ [][TamperNext]_vars

\* record i (1-based) of the list rs carries the hash it has to: the genesis
\* hash of its own authority_id and record_timestamp for the first record,
\* the hash of record i-1 for every other
CarriesExpectedHash(rs, i) ==
    /\ "previous_record_hash" \in DOMAIN rs[i]
    /\ rs[i].previous_record_hash =
          IF i = 1
          THEN genesis_hash(get(rs[1], "authority_id", ""),
                            get(rs[1], "record_timestamp", ""))
          ELSE sha256_hash(canonical_json(rs[i - 1]))

RECURSIVE FirstFailingIndex(_, _)
\* the 0-based index of the first record from position i on that does not
\* carry the expected hash, -1 when there is none
FirstFailingIndex(rs, i) ==
    IF i > Len(rs) THEN 0 - 1
    ELSE IF ~CarriesExpectedHash(rs, i) THEN i - 1
    ELSE FirstFailingIndex(rs, i + 1)

\* C23: on any stored record list, altered behind the API or not,
\* verify_chain_integrity returns (True, None) exactly when the list is empty
\* or every record carries the expected hash, and (False, i) with i the
\* smallest failing index otherwise.
C23_FirstFailingIndex ==
    result.op = "verify_chain_integrity" =>
        LET first == FirstFailingIndex(get_all_records(records), 1)
        IN  result.chain = <<first = 0 - 1, first>>

\* C23 witness: three records are stored, the second and the third both fail
\* their link check, and index 1 has been reported.
C23_Witness ==
    /\ result.op = "verify_chain_integrity"
    /\ Len(records) = 3
    /\ CarriesExpectedHash(get_all_records(records), 1)
    /\ ~CarriesExpectedHash(get_all_records(records), 2)
    /\ ~CarriesExpectedHash(get_all_records(records), 3)
    /\ result.chain = <<FALSE, 1>>

-----------------------------------------------------------------------------
(* Two callers inside the factory functions at once.  A caller first reads  *)
(* the ledger and assembles and validates its record, and calls             *)
(* append_record in a later step; append_record itself is one step.         *)
(* callers[c] holds the assembled record and the number of records read.    *)

\* create_decision_record up to the validation (records.py:200-235)
FactoryBuildDecision(c, args) ==
    LET dr == DecisionRecordOf(records, args)
        v == validate_dr(dr)
        ok == v.exc = None /\ v.valid
    IN  /\ callers[c] = <<>>
        /\ callers' = IF ok
                      THEN [callers EXCEPT ![c] = <<dr, Len(get_all_records(records))>>]
                      ELSE callers
        /\ result' = [op |-> "factory_build", ok |-> ok]
        /\ UNCHANGED <<records, payments>>

\* create_revocation_record up to the validation (records.py:274-318)
FactoryBuildRevocation(c, args) ==
    LET found == find_decision_record(records, args.target_decision_id) # <<>>
        rr == RevocationRecordOf(records, args)
        ok == /\ found
              /\ ~is_revoked(records, args.target_decision_id)
              /\ validate_rr(rr).valid
    IN  /\ callers[c] = <<>>
        /\ callers' = IF ok
                      THEN [callers EXCEPT ![c] = <<rr, Len(get_all_records(records))>>]
                      ELSE callers
        /\ result' = [op |-> "factory_build", ok |-> ok]
        /\ UNCHANGED <<records, payments>>

\* ledger.append_record(dr) of the caller (records.py:238, 321)
FactoryAppend(c) ==
    /\ callers[c] # <<>>
    /\ LET o == append_record(records, callers[c][1])
       IN  /\ o.exc = None => Len(records) < MaxRecords
           /\ records' = o.recs
           /\ result' = [op |-> "factory_append", exc |-> o.exc,
                         seen |-> callers[c][2]]
    /\ callers' = [callers EXCEPT ![c] = <<>>]
    /\ UNCHANGED payments

FactoryBuildStep ==
    \/ \E c \in Callers, d \in {D1, D2} :
          FactoryBuildDecision(c, DRArgs(d, "10000.00", T1))
    \/ \E c \in Callers : FactoryBuildRevocation(c, RRArgs(D1))

FactoryAppendStep == \E c \in Callers : FactoryAppend(c)

FactoryRaceNext ==
    \/ FactoryBuildStep
    \/ FactoryAppendStep

SpecFactoryRace == Init /\ [][FactoryRaceNext]_vars

\* no two stored records carry the same previous_record_hash
NoForkIn(recs) ==
    LET rs == get_all_records(recs)
    IN  \A i, j \in 1..Len(rs) :
            i # j => rs[i].previous_record_hash # rs[j].previous_record_hash

\* C24: with append_record atomic, an append by a caller that read the ledger
\* as it still is succeeds, and an append by a caller that read the last
\* record before another append went in fails with a chain error and stores
\* nothing; in every reachable state no two stored records carry the same
\* previous_record_hash and verify_chain_integrity returns (True, None).
C24_AtomicAppendNoFork ==
    [][/\ \A c \in Callers :
             FactoryAppend(c) =>
                IF callers[c][2] = Len(records)
                THEN /\ result'.exc = None
                     /\ Len(records') = Len(records) + 1
                ELSE /\ result'.exc \in ChainErrors
                     /\ records' = records
       /\ NoForkIn(records')
       /\ verify_chain_integrity(records') = <<TRUE, 0 - 1>>]_vars

\* C24 witness: both callers read the empty ledger, one record is stored, and
\* the append of the other caller has just failed with a chain error.
C24_Witness ==
    /\ result.op = "factory_append"
    /\ result.exc \in ChainErrors
    /\ result.seen = 0
    /\ Len(records) = 1

-----------------------------------------------------------------------------
(* Ledgers in which a decision_id is used by several decision records that  *)
(* differ in limit, beneficiary or record type                              *)

PrecedenceDRArgs ==
    {DRArgs(D1, "10000.00", T1), DRArgs(D1, "20000.00", T1),
     [DRArgs(D1, "10000.00", T1) EXCEPT !.beneficiary = "OTHER"],
     DRArgs(D2, "20000.00", T1)}

PrecedenceFactoryStep ==
    \/ \E args \in PrecedenceDRArgs : CreateDecisionRecord(args)
    \/ CreateRevocationRecord(RRArgs(D1))

\* a term-limited record of D1 handed to append_record with a correct link
PrecedenceAppendStep ==
    AppendRecord(EngineRecord(records, EngineBodies[1]))

PrecedenceProbes ==
    [decision_id : {D1, D2},
     beneficiary : {"SUPPLIER-TEST", "OTHER"},
     currency : {"BRL"},
     value : {"4000.00", "20000.00"},
     payment_date : {T3}]

PrecedenceAuthorizeStep == \E p \in PrecedenceProbes : IsPaymentAuthorized(p)

PrecedenceNext ==
    \/ PrecedenceFactoryStep
    \/ PrecedenceAppendStep
    \/ EnginePaymentStep
    \/ PrecedenceAuthorizeStep

SpecPrecedence == Init /\ [][PrecedenceNext]_vars

\* the step stored one more record, a decision record of decision d
AppendsDecisionRecordOf(d) ==
    /\ Len(records') = Len(records) + 1
    /\ SubSeq(records', 1, Len(records)) = records
    /\ records'[Len(records')].record_type \in {"DR", "SDR"}
    /\ records'[Len(records')].decision_id = d

\* C25: appending a further decision record with a decision_id that is in use
\* changes neither what find_decision_record returns for it, which is the
\* earliest stored decision record of that id, nor the outcome of
\* is_payment_authorized for any payment on it.
C25_FirstOccurrenceWins ==
    [][\A d \in DecisionIds :
          (DecisionStored(d) /\ AppendsDecisionRecordOf(d)) =>
             /\ find_decision_record(records', d) = find_decision_record(records, d)
             /\ find_decision_record(records', d) =
                   <<get_all_records(records')[
                       CHOOSE i \in DecisionRecordsOf(d) :
                           \A j \in DecisionRecordsOf(d) : i <= j]>>
             /\ \A p \in PrecedenceProbes :
                   p.decision_id = d =>
                      is_payment_authorized(records', payments', p)
                         = is_payment_authorized(records, payments, p)]_vars

\* C25 witness: D1 was decided with limit 10000.00 and then again with limit
\* 20000.00, and a payment of 20000.00 on it has just been refused.
C25_Witness ==
    /\ Len(records) >= 2
    /\ records[1].decision_id = D1
    /\ get(get_all_records(records)[1], "maximum_value", None) = "10000.00"
    /\ records[2].decision_id = D1
    /\ get(get_all_records(records)[2], "maximum_value", None) = "20000.00"
    /\ result.op = "is_payment_authorized"
    /\ result.payment = Payment(D1, "SUPPLIER-TEST", "BRL", "20000.00", T3)
    /\ result.ret = "False"

-----------------------------------------------------------------------------
(* Term-limited decision records *)

\* the payment is on a stored SDR that carries a maximum_term, and the payment
\* date and the term are timestamps that compare
TermCompares(p) ==
    /\ ~Check1Fails(p)
    /\ get(TheDR(p), "record_type", None) = "SDR"
    /\ Has(TheDR(p), "maximum_term")
    /\ is_iso8601(TheDR(p).maximum_term)
    /\ is_iso8601(p.payment_date)
    /\ parse_date(p.payment_date).aware = parse_date(TheDR(p).maximum_term).aware

\* C26 as stated: on an SDR that carries a maximum_term, a payment dated later
\* than the term is rejected, and a payment dated exactly at the term that
\* passes checks 1 to 7 is authorized.
C26_TermLimit ==
    \A p \in EngineUniverse :
        TermCompares(p) =>
            /\ parse_date(p.payment_date).t > parse_date(TheDR(p).maximum_term).t
                  => is_payment_authorized(records, payments, p) = "False"
            /\ (/\ parse_date(p.payment_date).t = parse_date(TheDR(p).maximum_term).t
                /\ FailedChecks(p) \cap (1..7) = {})
                  => is_payment_authorized(records, payments, p) = "True"

\* C27: a stored decision record that breaks a DR rule, or that validate_dr
\* cannot judge, authorizes no payment: whatever else the ledger holds, no
\* payment checked against it gets True.
C27_InvalidRecordAuthorizesNothing ==
    \A p \in EngineUniverse :
        (/\ ~Check1Fails(p)
         /\ \/ ViolatedCodes(TheDR(p)) # {}
            \/ validate_dr(TheDR(p)).exc # None)
            => is_payment_authorized(records, payments, p) # "True"

\* C27 witness: the only stored record came in through append_record with one
\* decider and two signatures, and a payment that passes every check but the
\* re-validation has just been refused.
C27_Witness ==
    /\ Len(records) = 1
    /\ Len(get_all_records(records)[1].signatures) = 2
    /\ result.op = "is_payment_authorized"
    /\ FailedChecks(result.payment) = {3}
    /\ result.ret = "False"

-----------------------------------------------------------------------------
(* What the factory leaves in the ledger *)

\* the RR holds every required field and breaks no RR rule
RevocationWellFormed(rr) ==
    /\ \A i \in 1..Len(RRRequired) : RRRequired[i] \in DOMAIN rr
    /\ is_uuid_v4(rr.revocation_id)
    /\ is_uuid_v4(rr.target_decision_id)
    /\ rr.deciders_id # <<>>
    /\ is_iso8601(rr.revocation_date)
    /\ is_iso8601(rr.record_timestamp)
    /\ rr.signatures # <<>>

\* C28: in a ledger built through the factory alone every stored DR passes
\* validate_dr, every stored RR passes validate_rr, and the target of every
\* RR is the decision_id of a decision record stored before that RR.
C28_FactoryRecordsValid ==
    LET all == get_all_records(records)
    IN  \A i \in 1..Len(all) :
            IF records[i].record_type = "RR"
            THEN /\ validate_rr(all[i]).valid
                 /\ RevocationWellFormed(all[i])
                 /\ \E j \in 1..(i - 1) :
                       /\ records[j].record_type \in {"DR", "SDR"}
                       /\ all[j].decision_id = all[i].target_decision_id
            ELSE /\ validate_dr(all[i]).exc = None
                 /\ validate_dr(all[i]).valid
                 /\ ViolatedCodes(all[i]) = {}

\* C28 witness: a decision and its revocation are stored, and a call of
\* create_decision_record with arguments that break a rule has just been
\* refused.
C28_Witness ==
    /\ Len(records) = 2
    /\ records[1].record_type = "DR"
    /\ records[2].record_type = "RR"
    /\ result.op = "create_decision_record"
    /\ result.exc = "ValueError: Invalid Decision Record"

\* C29: record_payment stores the payment whatever the ledger says about its
\* decision (no decision record, revoked, limit exceeded), and leaves the
\* record list and the result of verify_chain_integrity as they were.
C29_RecordPaymentIndependent ==
    [][result'.op = "record_payment" =>
          /\ result'.exc = None
          /\ payments' = Append(payments,
                                [payment_id |-> Len(payments) + 1,
                                 decision_id |-> D1,
                                 beneficiary |-> "SUPPLIER-TEST",
                                 currency |-> "BRL",
                                 value |-> "6000.00",
                                 payment_date |-> T3])
          /\ records' = records
          /\ verify_chain_integrity(records') = verify_chain_integrity(records)]_vars

\* C29 witness: D1 is revoked, its limit is 10000.00, and a second payment of
\* 6000.00 on it has just been recorded.
C29_Witness ==
    /\ DecisionStored(D1)
    /\ RevocationStored(D1)
    /\ Len(payments) = 2
    /\ ExactPaid(D1).n = 12000
    /\ get(TheDR([decision_id |-> D1]), "maximum_value", None) = "10000.00"
    /\ result = [op |-> "record_payment", exc |-> None]

-----------------------------------------------------------------------------
(* append_record run by two callers on the same database without mutual     *)
(* exclusion: the reads and the link check are one step, the INSERT another *)

SplitBodies ==
    {("record_type" :> "DR") @@ DRArgs(d, "10000.00", T1) : d \in {D1, D2}}

\* ledger.py:122-133: the caller reads the last record and the count and
\* checks the link of its record, which it built on the last record it saw
AppendCheck(c, body) ==
    LET record == EngineRecord(records, body)
        last_record == get_last_record(records)
        record_count == get_record_count(records)
        chain_ok == IF record_count = 0
                    THEN verify_genesis(record)
                    ELSE verify_chain_link(record, last_record[1])
    IN  /\ callers[c] = <<>>
        /\ callers' = IF chain_ok THEN [callers EXCEPT ![c] = <<record>>]
                      ELSE callers
        /\ result' = [op |-> "append_check", ok |-> chain_ok]
        /\ UNCHANGED <<records, payments>>

\* ledger.py:135-163: the INSERT of the record that passed the check
AppendInsert(c) ==
    /\ callers[c] # <<>>
    /\ Len(records) < MaxRecords
    /\ records' = Append(records, RecordRow(callers[c][1]))
    /\ result' = [op |-> "append_insert", hash |-> record_hash(callers[c][1])]
    /\ callers' = [callers EXCEPT ![c] = <<>>]
    /\ UNCHANGED payments

AppendCheckStep == \E c \in Callers, body \in SplitBodies : AppendCheck(c, body)

AppendInsertStep == \E c \in Callers : AppendInsert(c)

SplitNext ==
    \/ AppendCheckStep
    \/ AppendInsertStep
    \/ VerifyChainIntegrity

SpecSplitAppend == Init /\ [][SplitNext]_vars

\* the positions of the stored records that carry the previous_record_hash of
\* an earlier stored record
ForkSeconds ==
    LET rs == get_all_records(records)
    IN  {j \in 1..Len(rs) :
            \E i \in 1..(j - 1) :
                rs[i].previous_record_hash = rs[j].previous_record_hash}

\* C30: without mutual exclusion inside append_record, two appends that pass
\* the link check against the same predecessor are both stored; once two
\* stored records carry the same previous_record_hash, verify_chain_integrity
\* reports the chain invalid at the second of them, and it reports a valid
\* chain as long as there is no such pair.
C30_ForkDetectedAtSecond ==
    verify_chain_integrity(records) =
        IF ForkSeconds = {} THEN <<TRUE, 0 - 1>>
        ELSE <<FALSE, (CHOOSE j \in ForkSeconds : \A k \in ForkSeconds : j <= k) - 1>>

\* C30 witness: the second and the third stored record both carry the hash of
\* the first, and verify_chain_integrity has just reported index 2.
C30_Witness ==
    /\ Len(records) = 3
    /\ get_all_records(records)[2].previous_record_hash
          = record_hash(get_all_records(records)[1])
    /\ get_all_records(records)[3].previous_record_hash
          = record_hash(get_all_records(records)[1])
    /\ result = [op |-> "verify_chain_integrity", chain |-> <<FALSE, 2>>]

\* C31 as stated: after the content of one stored record of a chain that
\* verified has been altered behind the API, at whatever index, the last one
\* included, verify_chain_integrity returns invalid.
C31_TamperEvident ==
    [][(/\ result'.op = "alter_row"
        /\ verify_chain_integrity(records)[1])
          => ~verify_chain_integrity(records')[1]]_vars

-----------------------------------------------------------------------------
(* The payment log written by record_payment with values of either sign,    *)
(* under fresh and under repeated payment ids                               *)

LogValues == {"6000.00", "4000.00", "-100.00"}

LogPaymentStep ==
    \E id \in 1..(Len(payments) + 1), v \in LogValues :
        RecordPayment(id, D1, "SUPPLIER-TEST", "BRL", v, T3)

LogProbes ==
    {Payment(D1, "SUPPLIER-TEST", "BRL", v, T3) : v \in {"4000.00", "4001.00"}}

LogAuthorizeStep == \E p \in LogProbes : IsPaymentAuthorized(p)

LogNext ==
    \/ EngineFactoryStep
    \/ LogPaymentStep
    \/ LogAuthorizeStep

SpecPaymentLog == Init /\ [][LogNext]_vars

\* the payment passes every check but the seventh, and fails that one only
\* because its positive value does not fit the headroom
ExceedsOnly(p) ==
    /\ FailedChecks(p) = {7}
    /\ is_positive_decimal(p.value)
    /\ is_payment_authorized(records, payments, p) = "False"

PaymentIdLogged(id) == \E i \in 1..Len(payments) : payments[i].payment_id = id

PaymentIdsDistinct(pays) ==
    \A i, j \in 1..Len(pays) :
        pays[i].payment_id = pays[j].payment_id => i = j

\* C33: record_payment with a payment_id already in the payment log fails on
\* the UNIQUE constraint and leaves the log and every sum_payments as they
\* were; the payment ids of the log stay pairwise distinct, so a retried
\* recording never counts a value twice.
C33_PaymentIdOnce ==
    [][/\ \A id \in 1..(Len(payments) + 1), v \in LogValues :
             (/\ PaymentIdLogged(id)
              /\ RecordPayment(id, D1, "SUPPLIER-TEST", "BRL", v, T3))
                => /\ result'.exc = "IntegrityError: UNIQUE constraint failed"
                   /\ payments' = payments
                   /\ \A d \in DecisionIds :
                         sum_payments(payments', d) = sum_payments(payments, d)
       /\ PaymentIdsDistinct(payments')]_vars

\* a retry of a recorded payment has just been refused, the log holding the
\* payment once and the sum of the decision counting it once
C33_Witness ==
    /\ result.op = "record_payment"
    /\ result.exc = "IntegrityError: UNIQUE constraint failed"
    /\ DecisionStored(D1)
    /\ Len(payments) = 1
    /\ payments[1].value = "6000.00"
    /\ sum_payments(payments, D1).str = DecStr(Decimal("6000.00"))

-----------------------------------------------------------------------------
(* Term-limited records whose maximum_term is absent, empty or unparsable   *)

TermBodies ==
    << ("record_type" :> "SDR") @@ DRArgs(D1, "10000.00", T1),
       ("record_type" :> "SDR") @@ ("maximum_term" :> "")
           @@ DRArgs(D1, "10000.00", T1),
       ("record_type" :> "SDR") @@ ("maximum_term" :> NotADate)
           @@ DRArgs(D1, "10000.00", T1),
       ("record_type" :> "SDR") @@ ("maximum_term" :> T2)
           @@ DRArgs(D1, "10000.00", T1) >>

TermAppendStep ==
    /\ Len(records) < MaxDirect
    /\ \E i \in 1..Len(TermBodies) :
          AppendRecord(EngineRecord(records, TermBodies[i]))

TermUniverse ==
    [decision_id : {D1, D2},
     beneficiary : {"SUPPLIER-TEST", "supplier-test"},
     currency : {"BRL", "USD"},
     value : {"4000.00", "4001.00", "-100.00", "abc"},
     payment_date : {T0, T1, T3, NotADate}]

TermProbes ==
    {Payment(D1, "SUPPLIER-TEST", "BRL", v, t) :
        v \in {"4000.00", "4001.00"}, t \in {T0, T3}}

TermAuthorizeStep == \E p \in TermProbes : IsPaymentAuthorized(p)

TermNext ==
    \/ TermAppendStep
    \/ EngineFactoryStep
    \/ EnginePaymentStep
    \/ TermAuthorizeStep

SpecTerm == Init /\ [][TermNext]_vars

\* the payment is on a stored SDR whose maximum_term is absent, empty or not
\* a timestamp
TermUnusable(p) ==
    /\ ~Check1Fails(p)
    /\ get(TheDR(p), "record_type", None) = "SDR"
    /\ \/ ~Has(TheDR(p), "maximum_term")
       \/ TheDR(p).maximum_term = ""
       \/ ~is_iso8601(TheDR(p).maximum_term)

\* C34: on an SDR whose maximum_term is absent, empty or not a valid
\* timestamp, is_payment_authorized answers what checks 1 to 7 alone give:
\* True when the payment passes them all, whatever its date, False otherwise.
C34_UnusableTermNoExpiry ==
    \A p \in TermUniverse :
        TermUnusable(p) =>
            is_payment_authorized(records, payments, p)
                = (IF FailedChecks(p) \cap (1..7) = {} THEN "True" ELSE "False")

\* C34 witness: the stored SDR carries a maximum_term that is no timestamp,
\* and a payment dated after every other date of the ledger has just been
\* authorized.
C34_Witness ==
    /\ Len(records) >= 1
    /\ get(get_all_records(records)[1], "maximum_term", None) = NotADate
    /\ result.op = "is_payment_authorized"
    /\ result.payment.payment_date = T3
    /\ TermUnusable(result.payment)
    /\ result.ret = "True"

====
